---- MODULE Spec2Model ----
(***************************************************************************)
(* A model of autott's release processing pipeline:                        *)
(*   - the ledger (src/src/cache.py, class Cache),                         *)
(*   - the eligibility filter and release preparation                      *)
(*     (src/src/modes.py, _build_transcode_group),                         *)
(*   - the batch controller (src/src/modes.py, transcode_online),          *)
(*   - the transcode engine (src/src/transcode.py, class Transcode).       *)
(*                                                                         *)
(* Python's None is modelled as the empty tuple for optional integers      *)
(* (an id, a timestamp: <<>> or <<n>>) and as the string "None" for an     *)
(* optional message.                                                       *)
(***************************************************************************)
EXTENDS Integers, Sequences, FiniteSets, TLC

VARIABLES
    \* ---- the ledger (Cache)
    cache,            \* Cache._cache: torrent id -> CacheEntry (a dict)
    saved,            \* the pickled snapshot at Cache._path
    lastOp,           \* history: the last mutating operation that touched each id
    \* ---- the configuration of a run
    release_urls,     \* whether config.release_urls names explicit releases
    created_cutoff,   \* config.created_cutoff: <<>> or <<time>>
    batch,            \* config.batch: <<>> or <<size>>
    \* ---- the catalog behind the tracker
    catalog,          \* torrent id -> the torrent's metadata as the tracker returns it
    \* ---- the batch controller (transcode_online)
    ci,               \* number of candidates consumed by the preparation loop
    processing,       \* the set of dedup keys of the prepared releases
    transcode_groups, \* the prepared releases, in preparation order
    pc,               \* position of the controller
    ei,               \* number of prepared releases handled by the execution loop
    fs,               \* the output directories on disk: directory -> state
    hist,             \* history: what the last iteration of the execution loop did
    \* ---- the eligibility filter, seen from outside
    last,             \* history: the last candidate handled, its metadata and outcome
    \* ---- the transcode engine (one Transcode.execute)
    transcode,        \* the Transcode object: tracks, outputs, additional_files
    tstate,           \* per conversion task: pending, running, done, failed
    dirs,             \* the directories on disk: directory -> the entries it holds
    xpc,              \* position of the thread running Transcode.execute
    xhist,            \* history: how the execution failed, whether cancel ran,
                      \* whether a task was started after another had failed
    \* ---- the construction of the ledger (Cache.__init__)
    store             \* config's cache path, what the constructor found there,
                      \* whether Cache._cache exists, what the last call raised

ledgerVars == <<cache, saved, lastOp>>
configVars == <<release_urls, created_cutoff, batch, catalog>>
batchVars  == <<ci, processing, transcode_groups, pc, ei, fs, hist>>
engineVars == <<transcode, tstate, dirs, xpc, xhist>>
vars == <<cache, saved, lastOp, release_urls, created_cutoff, batch, catalog, ci,
          processing, transcode_groups, pc, ei, fs, hist, last, transcode, tstate,
          dirs, xpc, xhist, store>>

(***************************************************************************)
(* Bounds of the model.                                                    *)
(***************************************************************************)
MaxLedgerIds == 2     \* item ids used by the ledger-only specification
MaxTime == 2          \* timestamps are 1..MaxTime

None == "None"        \* an absent message
NoneT == <<>>         \* an absent integer (id, timestamp, batch size)
Some(n) == <<n>>

Times == 1 .. MaxTime
Cutoffs == {NoneT} \cup {Some(t) : t \in Times}

(***************************************************************************)
(* The ledger: src/src/cache.py                                            *)
(***************************************************************************)
CacheEntry(group_id, err, retryFlag, created) ==
    [group_id |-> group_id, error |-> err, retry |-> retryFlag, created |-> created]

\* self._cache[torrent_id] = entry
Put(c, torrent_id, entry) ==
    [t \in DOMAIN c \cup {torrent_id} |-> IF t = torrent_id THEN entry ELSE c[t]]

\* the dict restricted to the keys in keep
Restrict(c, keep) == [t \in DOMAIN c \cap keep |-> c[t]]

EmptyCache == Restrict(<<>>, {})

\* Cache.complete, before _save
complete(c, group_id, torrent_id) ==
    Put(c, torrent_id, CacheEntry(group_id, None, FALSE, NoneT))

\* a slip that would leave a rejected item retry-eligible
bad_retryable(c, group_id, torrent_id, err) ==
    Put(c, torrent_id, CacheEntry(group_id, err, TRUE, NoneT))

\* Cache.bad, before _save
bad(c, group_id, torrent_id, err) ==
    Put(c, torrent_id, CacheEntry(group_id, err, FALSE, NoneT))

\* a slip that would evaluate the decider again when it stores the flag
error_twice(c, group_id, torrent_id, err, retry_callback) ==
    Put(c, torrent_id,
        CacheEntry(group_id, err, retry_callback[Len(retry_callback)], NoneT))

\* Cache.error, before _save. retry_callback is the decider, given as the
\* results its successive evaluations would return: it is evaluated once, in
\* the construction of the entry.
error(c, group_id, torrent_id, err, retry_callback) ==
    Put(c, torrent_id, CacheEntry(group_id, err, retry_callback[1], NoneT))

\* a slip that would store a deferred item without the retry flag
retry_unflagged(c, group_id, torrent_id, created, err) ==
    Put(c, torrent_id, CacheEntry(group_id, err, FALSE, created))

\* Cache.retry, before _save
retry(c, group_id, torrent_id, created, err) ==
    Put(c, torrent_id, CacheEntry(group_id, err, TRUE, created))

\* a slip that would compare with <= instead of <
_should_try_le(entry, cutoff) ==
    /\ entry.error # None
    /\ entry.retry
    /\ (entry.created = NoneT \/ cutoff = NoneT \/ entry.created[1] <= cutoff[1])

\* Cache._should_try
_should_try(entry, cutoff) ==
    /\ entry.error # None
    /\ entry.retry
    /\ (entry.created = NoneT \/ cutoff = NoneT \/ entry.created[1] < cutoff[1])

\* a slip that would treat an id without a record as not due
should_try_known(c, torrent_id, cutoff) ==
    IF torrent_id \notin DOMAIN c THEN FALSE ELSE _should_try(c[torrent_id], cutoff)

\* Cache.should_try
should_try(c, torrent_id, cutoff) ==
    IF torrent_id \notin DOMAIN c THEN TRUE ELSE _should_try(c[torrent_id], cutoff)

\* a slip that would yield every record that has an error
get_cached_errors(c, cutoff) ==
    {<<c[t].group_id, t>> : t \in {u \in DOMAIN c : c[u].error # None}}

\* Cache.get_cached: the (group_id, torrent_id) pairs it yields
get_cached(c, cutoff) ==
    {<<c[t].group_id, t>> : t \in {u \in DOMAIN c : _should_try(c[u], cutoff)}}

\* the truth value Python gives an error field: None and the empty message
\* are false
Truthy(err) == err # None /\ err # ""

\* Cache.clear, before _save: the dict it leaves behind and whether pop raised
\* KeyError (then _save is not reached). `not cache.error` keeps the entries
\* whose error is false as a truth value.
clear(c, id, errors) ==
    LET c1 == IF errors THEN Restrict(c, {t \in DOMAIN c : ~Truthy(c[t].error)}) ELSE c
    IN  IF id = NoneT THEN [cache |-> c1, raised |-> FALSE]
        ELSE IF id[1] \in DOMAIN c1
             THEN [cache |-> Restrict(c1, DOMAIN c1 \ {id[1]}), raised |-> FALSE]
             ELSE [cache |-> c1, raised |-> TRUE]

\* Cache._save: the snapshot written for the dict c
_save(c) == c

\* the history entry of an id
Touched(op, created) == [op |-> op, created |-> created]

Touch(h, torrent_id, op, created) ==
    [t \in DOMAIN h |-> IF t = torrent_id THEN Touched(op, created) ELSE h[t]]

\* the history after a clear(id, errors) of dict c that returned normally:
\* the record of id, and with errors the records whose error is not None,
\* are the ones the caller selected
TouchSelected(h, c, id, errors) ==
    [t \in DOMAIN h |->
        IF t \in DOMAIN c /\ id = Some(t) THEN Touched("clear", NoneT)
        ELSE IF t \in DOMAIN c /\ errors /\ c[t].error # None
             THEN Touched("clear_errors", NoneT)
             ELSE h[t]]

\* the history after a clear that turned dict c into dict d
TouchCleared(h, c, d) ==
    [t \in DOMAIN h |-> IF t \in DOMAIN c /\ t \notin DOMAIN d
                        THEN Touched("clear", NoneT) ELSE h[t]]

(***************************************************************************)
(* LedgerSpec: every sequence of ledger operations on a few item ids.      *)
(***************************************************************************)
LedgerIds == 1 .. MaxLedgerIds
LedgerGroups == {NoneT, Some(1)}
LedgerErrors == {"x", ""}      \* error: str, any message

IdleConfig ==
    /\ release_urls = FALSE
    /\ created_cutoff = NoneT
    /\ batch = NoneT
    /\ catalog = <<>>

IdleBatch ==
    /\ ci = 0
    /\ processing = {}
    /\ transcode_groups = <<>>
    /\ pc = "idle"
    /\ ei = 0
    /\ fs = <<>>
    /\ hist = [kind |-> "none"]

IdleFilter == last = [kind |-> "none"]

\* a ledger constructed from the snapshot at a configured path
IdleStore ==
    store = [path |-> "cache", found |-> "snapshot", _cache |-> "set",
             raised |-> "none"]

IdleEngine ==
    /\ transcode = <<>>
    /\ tstate = <<>>
    /\ dirs = <<>>
    /\ xpc = "idle"
    /\ xhist = [failure |-> "none", cancelled |-> FALSE, late |-> FALSE]

LedgerInit ==
    /\ cache = EmptyCache
    /\ saved = EmptyCache
    /\ lastOp = [t \in LedgerIds |-> Touched("none", NoneT)]
    /\ IdleConfig /\ IdleBatch /\ IdleFilter /\ IdleEngine /\ IdleStore

LedgerFrame == UNCHANGED <<configVars, batchVars, last, engineVars, store>>

LedgerComplete ==
    \E g \in LedgerGroups, t \in LedgerIds :
        /\ cache' = complete(cache, g, t)
        /\ saved' = _save(cache')
        /\ lastOp' = Touch(lastOp, t, "complete", NoneT)
        /\ LedgerFrame

LedgerBad ==
    \E g \in LedgerGroups, t \in LedgerIds, e \in LedgerErrors :
        /\ cache' = bad(cache, g, t, e)
        /\ saved' = _save(cache')
        /\ lastOp' = Touch(lastOp, t, "bad", NoneT)
        /\ LedgerFrame

\* the decider Cache.error uses when none is supplied: lambda: True
DefaultRetryCallback == <<TRUE, TRUE>>

\* the deciders: an operator may answer differently each time they are asked
RetryCallbacks == [1 .. 2 -> BOOLEAN]

LedgerError ==
    \E g \in LedgerGroups, t \in LedgerIds, e \in LedgerErrors,
       cb \in RetryCallbacks \cup {DefaultRetryCallback} :
        /\ cache' = error(cache, g, t, e, cb)
        /\ saved' = _save(cache')
        /\ lastOp' = Touch(lastOp, t, IF cb[1] THEN "error_retry" ELSE "error_final",
                           NoneT)
        /\ LedgerFrame

LedgerRetry ==
    \E g \in LedgerGroups, t \in LedgerIds, e \in LedgerErrors, T \in Times :
        /\ cache' = retry(cache, g, t, Some(T), e)
        /\ saved' = _save(cache')
        /\ lastOp' = Touch(lastOp, t, "retry", Some(T))
        /\ LedgerFrame

LedgerClear ==
    \E id \in {NoneT} \cup {Some(t) : t \in LedgerIds}, errors \in BOOLEAN :
        LET r == clear(cache, id, errors)
        IN  /\ cache' = r.cache
            /\ saved' = IF r.raised THEN saved ELSE _save(r.cache)
            /\ lastOp' = IF r.raised THEN TouchCleared(lastOp, cache, r.cache)
                          ELSE TouchSelected(lastOp, cache, id, errors)
            /\ LedgerFrame

LedgerNext ==
    \/ LedgerComplete
    \/ LedgerBad
    \/ LedgerError
    \/ LedgerRetry
    \/ LedgerClear

LedgerSpec == LedgerInit /\ [][LedgerNext]_vars

\* C1: whenever the most recent ledger operation that touched an item id is
\* recordComplete (Cache.complete) or recordBad (Cache.bad), isDue
\* (Cache.should_try) is false for that id under every cutoff, None included.
C1_NotDueAfterCompleteOrBad ==
    \A t \in DOMAIN lastOp :
        lastOp[t].op \in {"complete", "bad"} =>
            \A cutoff \in Cutoffs : ~should_try(cache, t, cutoff)

\* an id rejected with recordBad after it had been retry-eligible, next to an
\* id that is still due
C1_Witness ==
    \E t, u \in DOMAIN lastOp :
        /\ lastOp[t].op = "bad"
        /\ t \in DOMAIN cache /\ cache[t].error # None
        /\ lastOp[u].op = "retry"
        /\ should_try(cache, u, NoneT)

\* C2: whenever the most recent write on an item id is recordRetryLater
\* (Cache.retry) with createdAt = T, isDue(id, cutoff) is true exactly when
\* cutoff is None or T is strictly earlier than cutoff.
C2_DueAfterRetryIffBeforeCutoff ==
    \A t \in DOMAIN lastOp :
        lastOp[t].op = "retry" =>
            \A cutoff \in Cutoffs :
                should_try(cache, t, cutoff)
                    <=> (cutoff = NoneT \/ lastOp[t].created[1] < cutoff[1])

\* a deferred id whose timestamp equals one cutoff and precedes another
C2_Witness ==
    \E t \in DOMAIN lastOp :
        /\ lastOp[t].op = "retry"
        /\ lastOp[t].created = Some(1)
        /\ ~should_try(cache, t, Some(1))
        /\ should_try(cache, t, Some(2))

(***************************************************************************)
(* The tracker's data: src/src/tracker.py                                  *)
(***************************************************************************)
\* class Format
FormatTable ==
    [FLAC_24 |-> [base_format |-> "FLAC", encoding |-> "24bit Lossless", ext |-> ".flac", lossless |-> TRUE],
     FLAC_16 |-> [base_format |-> "FLAC", encoding |-> "Lossless", ext |-> ".flac", lossless |-> TRUE],
     MP3_320 |-> [base_format |-> "MP3", encoding |-> "320", ext |-> ".mp3", lossless |-> FALSE],
     MP3_V0  |-> [base_format |-> "MP3", encoding |-> "V0 (VBR)", ext |-> ".mp3", lossless |-> FALSE],
     MP3_V1  |-> [base_format |-> "MP3", encoding |-> "V1 (VBR)", ext |-> ".mp3", lossless |-> FALSE],
     MP3_V2  |-> [base_format |-> "MP3", encoding |-> "V2 (VBR)", ext |-> ".mp3", lossless |-> FALSE],
     MP3_256 |-> [base_format |-> "MP3", encoding |-> "256", ext |-> ".mp3", lossless |-> FALSE],
     MP3_192 |-> [base_format |-> "MP3", encoding |-> "192", ext |-> ".mp3", lossless |-> FALSE],
     MP3_96  |-> [base_format |-> "MP3", encoding |-> "96", ext |-> ".mp3", lossless |-> FALSE]]

\* Format.from_encoding; "ValueError" when no format has the encoding
from_encoding(encoding) ==
    IF \E f \in DOMAIN FormatTable : FormatTable[f].encoding = encoding
    THEN CHOOSE f \in DOMAIN FormatTable : FormatTable[f].encoding = encoding
    ELSE "ValueError"

\* MEDIA: lower-case key -> the tracker's name of the media
MEDIA ==
    ("cd" :> "CD") @@ ("dvd" :> "DVD") @@ ("vinyl" :> "Vinyl") @@
    ("soundboard" :> "Soundboard") @@ ("sacd" :> "SACD") @@ ("dat" :> "DAT") @@
    ("web" :> "WEB") @@ ("blu-ray" :> "Blu-ray")

\* str.lower() on a media name of the tracker
Lower(media) == CHOOSE k \in DOMAIN MEDIA : MEDIA[k] = media

\* str() of an optional integer
Str(x) == IF x = NoneT THEN "None" ELSE ToString(x[1])

\* _GROUPING_ATTRIBUTES
GroupingAttributes(t) ==
    <<t.media, t.remasterYear, t.remasterTitle, t.remasterRecordLabel,
      t.remasterCatalogueNumber>>

\* Tracker.get_torrent_grouping: str() of each grouping attribute
get_torrent_grouping(torrent) ==
    <<torrent.media, Str(torrent.remasterYear), torrent.remasterTitle,
      torrent.remasterRecordLabel, torrent.remasterCatalogueNumber>>

\* Tracker.get_torrent_group: env is what the request does. A candidate with a
\* group id fetches that group and looks the torrent up in it.
get_torrent_group(cat, group_id, torrent_id, env) ==
    IF env # "ok" THEN [raised |-> env]
    ELSE IF torrent_id \notin DOMAIN cat THEN [raised |-> "TrackerException"]
    ELSE IF group_id # NoneT /\ cat[torrent_id].group # group_id[1]
         THEN [raised |-> "TrackerException"]
    ELSE [raised |-> "none",
          torrent |-> cat[torrent_id],
          other_torrents |-> {cat[u] : u \in {v \in DOMAIN cat :
                                              cat[v].group = cat[torrent_id].group}}]

\* a slip that would count the formats of trumpable and reported siblings too
get_possible_transcodes_all(torrent, other_torrents, formats) ==
    IF torrent.preemphasis THEN [raised |-> FALSE, formats |-> {}]
    ELSE LET same == {t \in other_torrents :
                         GroupingAttributes(t) = GroupingAttributes(torrent)}
             available_formats == {from_encoding(t.encoding) : t \in same}
         IN  IF "ValueError" \in available_formats
             THEN [raised |-> TRUE, formats |-> {}]
             ELSE [raised |-> FALSE, formats |-> formats \ available_formats]

\* Tracker.get_possible_transcodes; raised when from_encoding fails on a sibling
get_possible_transcodes(torrent, other_torrents, formats) ==
    IF torrent.preemphasis THEN [raised |-> FALSE, formats |-> {}]
    ELSE LET same == {t \in other_torrents :
                         GroupingAttributes(t) = GroupingAttributes(torrent)}
             live == {t \in same : ~t.trumpable /\ ~t.reported}
             available_formats == {from_encoding(t.encoding) : t \in live}
         IN  IF "ValueError" \in available_formats
             THEN [raised |-> TRUE, formats |-> {}]
             ELSE [raised |-> FALSE, formats |-> formats \ available_formats]

(***************************************************************************)
(* The transcode engine, construction: src/src/transcode.py, music.py      *)
(***************************************************************************)
Resamples == {"KEEP", "KHZ_44_1", "KHZ_48"}

\* a slip that would take the first track's decision for the release
_get_global_resample_first(trackList) == trackList[1]

\* Transcode._get_global_resample: None when the tracks disagree
_get_global_resample(trackList) ==
    IF \E i \in 1 .. Len(trackList) : trackList[i] # trackList[1]
    THEN None
    ELSE trackList[1]

\* music.get_year
get_year(torrent) ==
    IF torrent.remasterYear # NoneT /\ torrent.remasterYear[1] >= 1900
    THEN torrent.remasterYear[1]
    ELSE torrent.groupYear

\* music.build_output_dir without overrides: the parts the name is made of
\* (artists and name of the group, remaster title, year, media, format)
build_output_dir(torrent, output_format) ==
    <<torrent.group, torrent.remasterTitle, get_year(torrent), torrent.media,
      output_format>>

\* a slip that would let a 16-bit lossless target through for a release that
\* needs no resampling
Contradictory_never(global_resample, formats) == FALSE

\* Transcode.__init__ line 188: no resampling needed, yet a 16-bit lossless
\* transcode was requested
Contradictory(global_resample, formats) ==
    global_resample = "KEEP" /\ "FLAC_16" \in formats

\* Transcode.__init__: "none" or the exception it raises. construct is what
\* discovery, track validation and path naming do ("ok" or an exception).
Construct(fsx, input_is_dir, outputs, trackList, construct) ==
    IF \E f \in DOMAIN outputs : outputs[f] \in DOMAIN fsx THEN "Exception"
    ELSE IF ~input_is_dir THEN "Exception"
    ELSE IF construct # "ok" THEN construct
    ELSE IF Contradictory(_get_global_resample(trackList), DOMAIN outputs)
         THEN "Exception"
    ELSE "none"

(***************************************************************************)
(* Release preparation: src/src/modes.py                                   *)
(***************************************************************************)
\* self.global_resample as line 184 of Transcode.__init__ assigns it, when the
\* construction gets that far: the decision discovery made for the release
Discovered(fsx, input_is_dir, outputs, trackList, construct) ==
    IF \/ \E f \in DOMAIN outputs : outputs[f] \in DOMAIN fsx
       \/ ~input_is_dir
       \/ construct # "ok"
    THEN "undiscovered"
    ELSE _get_global_resample(trackList)

\* _prepare_transcode: the Transcode it returns, or the exception raised
_prepare_transcode(fsx, torrent, input_is_dir, needed_formats, trackList, construct) ==
    LET outputs == [f \in needed_formats |-> build_output_dir(torrent, f)]
        raised == Construct(fsx, input_is_dir, outputs, trackList, construct)
    IN  [raised |-> raised,
         outputs |-> outputs,
         tracks |-> trackList,
         global_resample |-> IF raised = "none" THEN _get_global_resample(trackList)
                             ELSE None,
         discovered |-> Discovered(fsx, input_is_dir, outputs, trackList, construct)]

\* what the operator does at the prompt "Retry torrent later? (y/n) ": an
\* answer, or an interrupt that input() raises as KeyboardInterrupt
Answers == {"y", "n"}
Prompt == Answers \cup {"KeyboardInterrupt"}

\* a slip that would record every operational error as final
_error_check_retry_never(c, torrent, err, answer) ==
    IF answer \notin Answers THEN c
    ELSE error(c, Some(torrent.group), torrent.id, err, <<FALSE>>)

\* _error_check_retry: the callback is input(...) == 'y'; when input() raises,
\* Cache.error raises before it stores anything
_error_check_retry(c, torrent, err, answer) ==
    IF answer \notin Answers THEN c
    ELSE error(c, Some(torrent.group), torrent.id, err, <<answer = "y">>)

PermanentReasons ==
    {"unknown_year", "lossy_master", "not_lossless", "reported_trumpable",
     "disallowed_media", "bad_log"}

\* a slip that would test the media before the release year
Rejection_media_first(torrent, format, allowed_media, cutoff) ==
    IF Lower(torrent.media) \notin allowed_media THEN "disallowed_media"
    ELSE IF torrent.remasterYear # NoneT /\ torrent.remasterYear[1] = 0 THEN "unknown_year"
    ELSE IF torrent.lossyMasterApproved \/ torrent.lossyWebApproved THEN "lossy_master"
    ELSE IF ~FormatTable[format].lossless THEN "not_lossless"
    ELSE IF torrent.reported \/ torrent.trumpable THEN "reported_trumpable"
    ELSE IF torrent.hasLog /\ torrent.logScore < 100 THEN "bad_log"
    ELSE IF cutoff # NoneT /\ torrent.time >= cutoff[1] THEN "too_recent"
    ELSE "pass"

\* a slip that would defer only the items strictly newer than the cutoff
Rejection_strict(torrent, format, allowed_media, cutoff) ==
    IF torrent.remasterYear # NoneT /\ torrent.remasterYear[1] = 0 THEN "unknown_year"
    ELSE IF torrent.lossyMasterApproved \/ torrent.lossyWebApproved THEN "lossy_master"
    ELSE IF ~FormatTable[format].lossless THEN "not_lossless"
    ELSE IF torrent.reported \/ torrent.trumpable THEN "reported_trumpable"
    ELSE IF Lower(torrent.media) \notin allowed_media THEN "disallowed_media"
    ELSE IF torrent.hasLog /\ torrent.logScore < 100 THEN "bad_log"
    ELSE IF cutoff # NoneT /\ torrent.time > cutoff[1] THEN "too_recent"
    ELSE "pass"

\* _build_transcode_group, lines 81-107: the first condition that matches
Rejection(torrent, format, allowed_media, cutoff) ==
    IF torrent.remasterYear # NoneT /\ torrent.remasterYear[1] = 0 THEN "unknown_year"
    ELSE IF torrent.lossyMasterApproved \/ torrent.lossyWebApproved THEN "lossy_master"
    ELSE IF ~FormatTable[format].lossless THEN "not_lossless"
    ELSE IF torrent.reported \/ torrent.trumpable THEN "reported_trumpable"
    ELSE IF Lower(torrent.media) \notin allowed_media THEN "disallowed_media"
    ELSE IF torrent.hasLog /\ torrent.logScore < 100 THEN "bad_log"
    ELSE IF cutoff # NoneT /\ torrent.time >= cutoff[1] THEN "too_recent"
    ELSE "pass"

\* what _build_transcode_group leaves behind: the ledger, the dedup set, the
\* TranscodeGroup returned (<<>> for None), the exception raised, and for the
\* history the outcome and the ledger operation performed
Built(c, p, ret, raised, outcome, op, created) ==
    [cache |-> c, processing |-> p, ret |-> ret, raised |-> raised,
     outcome |-> outcome, op |-> op, created |-> created,
     global_resample |-> "undiscovered"]

ErrorOp(answer) == IF answer = "y" THEN "error_retry" ELSE "error_final"

\* the dedup key of line 68: "##".join of str(group_id) and the grouping, with
\* group_id still as the candidate gave it
torrent_unique_id(group_id, torrent) == <<Str(group_id)>> \o get_torrent_grouping(torrent)

TranscodeGroup(torrent, tr) ==
    [group |-> torrent.group, torrent |-> torrent.id, outputs |-> tr.outputs,
     global_resample |-> tr.global_resample,
     grouping |-> get_torrent_grouping(torrent)]

\* a slip that would re-run the construction with the targets unchanged
Replanned_unchanged(needed_formats) == needed_formats

\* line 136: needed_formats.add(Format.FLAC_16)
Replanned(needed_formats) == needed_formats \cup {"FLAC_16"}

\* _build_transcode_group, lines 109-175: an item that passed the filter
BuildEligible(p, c, fsx, key, fetch, gid, format, cfg, env) ==
    LET torrent == fetch.torrent
        torrent_id == torrent.id
        needed == get_possible_transcodes(torrent, fetch.other_torrents, cfg.allowed_formats)
        t1 == _prepare_transcode(fsx, torrent, env.source_is_dir, needed.formats,
                                 env.tracks, env.construct1)
        t2 == _prepare_transcode(fsx, torrent, env.source_is_dir,
                                 Replanned(needed.formats),
                                 env.tracks, env.construct2)
        failed(outcome, raised) ==
            IF env.answer \in Answers
            THEN Built(_error_check_retry(c, torrent, outcome, env.answer), p, NoneT,
                       raised, outcome, ErrorOp(env.answer), NoneT)
            ELSE Built(_error_check_retry(c, torrent, outcome, env.answer), p, NoneT,
                       env.answer, "interrupted", "none", NoneT)
        prepared(t) ==
            Built(c, p \cup {key}, Some(TranscodeGroup(torrent, t)), "none", "prepared",
                  "none", NoneT)
        seen(r) == [r EXCEPT !.global_resample = t1.discovered]
    IN  IF needed.raised THEN Built(c, p, NoneT, "Exception", "unparsable", "none", NoneT)
        ELSE IF needed.formats = {}
             THEN Built(complete(c, gid, torrent_id), p, NoneT, "none", "nothing_needed",
                        "complete", NoneT)
        ELSE IF ~env.source_is_dir THEN failed("no_source", "none")
        ELSE IF t1.raised # "none" THEN seen(failed("prepare_failed", t1.raised))
        ELSE IF t1.global_resample = "KEEP"
             THEN IF format = "FLAC_24" THEN seen(failed("not_24bit", "none"))
                  ELSE seen(prepared(t1))
        ELSE IF format # "FLAC_24"
             THEN IF t2.raised # "none" THEN seen(failed("prepare_failed", t2.raised))
                  ELSE seen(prepared(t2))
        ELSE seen(prepared(t1))

\* _build_transcode_group. cfg is the configuration, env what the tracker,
\* the file system and the operator do during the call.
_build_transcode_group(p, c, fsx, cat, group_id, torrent_id, cfg, env) ==
    LET fetch == get_torrent_group(cat, group_id, torrent_id, env.fetch)
    IN  IF fetch.raised = "KeyboardInterrupt"
        THEN Built(c, p, NoneT, "KeyboardInterrupt", "interrupted", "none", NoneT)
        ELSE IF fetch.raised = "TrackerException"
        THEN \* line 66 records the error; line 68 then reads the unbound name
             \* torrent, which raises UnboundLocalError
             Built(error(c, group_id, torrent_id, "invalid", <<FALSE>>), p, NoneT,
                   "Exception", "invalid", "error_final", NoneT)
        ELSE
        LET torrent == fetch.torrent
            key == torrent_unique_id(group_id, torrent)
            gid == IF group_id = NoneT THEN Some(torrent.group) ELSE group_id
            format == from_encoding(torrent.encoding)
            rej == Rejection(torrent, format, cfg.allowed_media, cfg.created_cutoff)
        IN  IF key \in p THEN Built(c, p, NoneT, "none", "duplicate", "none", NoneT)
            ELSE IF format = "ValueError"
                 THEN Built(c, p, NoneT, "Exception", "unparsable", "none", NoneT)
            ELSE IF rej \in PermanentReasons
                 THEN Built(bad(c, gid, torrent_id, rej), p, NoneT, "none", rej, "bad", NoneT)
            ELSE IF rej = "too_recent"
                 THEN Built(retry(c, gid, torrent_id, Some(torrent.time), rej), p, NoneT,
                            "none", rej, "retry", Some(torrent.time))
            ELSE BuildEligible(p, c, fsx, key, fetch, gid, format, cfg, env)

(***************************************************************************)
(* The batch controller: src/src/modes.py, transcode_online                *)
(***************************************************************************)
MaxCandidates == 2    \* candidates the stream yields in one run, at most
MaxBatch == 2         \* config.batch is None or 0..MaxBatch

ConfigAllowedMedia == {"cd"}                    \* config.allowed_media
ConfigAllowedFormats == {"FLAC_16", "MP3_320"}  \* config.allowed_formats

\* the configuration _build_transcode_group reads
Config ==
    [created_cutoff |-> created_cutoff,
     allowed_media |-> IF release_urls THEN DOMAIN MEDIA ELSE ConfigAllowedMedia,
     allowed_formats |-> ConfigAllowedFormats]

Groups == {1}

\* what the candidate stream can yield: parsed URLs (the group id is optional
\* and unchecked) or, from the ledger and the seeding list, pairs with the
\* torrent's group id
Candidates ==
    IF release_urls
    THEN {<<g, t>> : g \in {NoneT} \cup {Some(x) : x \in Groups}, t \in DOMAIN catalog}
    ELSE {<<Some(catalog[t].group), t>> : t \in DOMAIN catalog}

\* the resample decisions of the tracks discovery finds: releases of one or two tracks
TrackLists == UNION {[1 .. n -> Resamples] : n \in {1, 2}}

FetchEnvs == {"ok", "TrackerException", "KeyboardInterrupt"}

\* what the file system, the engine's discovery and the operator do once an
\* item has passed the filter
PrepEnvs ==
    [source_is_dir : {FALSE}, tracks : {<<"KEEP">>}, construct1 : {"ok"},
     construct2 : {"ok"}, answer : Prompt]
    \cup
    [source_is_dir : {TRUE}, tracks : {<<"KEEP">>},
     construct1 : {"Exception", "KeyboardInterrupt"}, construct2 : {"ok"},
     answer : Prompt]
    \cup
    [source_is_dir : {TRUE}, tracks : TrackLists, construct1 : {"ok"},
     construct2 : {"ok", "Exception"}, answer : Prompt]

Env(fetch, pe) ==
    [fetch |-> fetch, source_is_dir |-> pe.source_is_dir, tracks |-> pe.tracks,
     construct1 |-> pe.construct1, construct2 |-> pe.construct2, answer |-> pe.answer]

DefaultPrepEnv ==
    [source_is_dir |-> TRUE, tracks |-> <<"KEEP">>, construct1 |-> "ok",
     construct2 |-> "ok", answer |-> "n"]

\* the outcomes decided before line 115, whatever PrepEnvs holds
EarlyOutcomes ==
    PermanentReasons \cup
    {"interrupted", "invalid", "duplicate", "unparsable", "too_recent", "nothing_needed"}

Seen(cand, outcome, op, raised, global_resample) ==
    [kind |-> "candidate", group_id |-> cand[1], torrent |-> cand[2],
     outcome |-> outcome, op |-> op, raised |-> raised,
     global_resample |-> global_resample]

\* lines 213-223 of transcode_online
Start ==
    /\ pc = "start"
    /\ IF release_urls
       THEN created_cutoff' = NoneT /\ batch' = NoneT
       ELSE UNCHANGED <<created_cutoff, batch>>
    /\ pc' = "prepare"
    /\ UNCHANGED <<ledgerVars, release_urls, catalog, ci, processing,
                   transcode_groups, ei, fs, hist, last, engineVars, store>>

\* a slip that would let every exception of _build_transcode_group end the run
Prepared_aborting(cand, r) ==
    /\ cache' = r.cache
    /\ saved' = IF r.op = "none" THEN saved ELSE _save(r.cache)
    /\ lastOp' = IF r.op = "none" THEN lastOp ELSE Touch(lastOp, cand[2], r.op, r.created)
    /\ processing' = r.processing
    /\ ci' = ci + 1
    /\ last' = Seen(cand, r.outcome, r.op, r.raised, r.global_resample)
    /\ IF r.raised # "none"
       THEN pc' = "aborted" /\ UNCHANGED transcode_groups
       ELSE IF r.ret = NoneT
       THEN UNCHANGED <<pc, transcode_groups>>
       ELSE /\ transcode_groups' = Append(transcode_groups, r.ret[1])
            /\ pc' = IF batch # NoneT /\ Cardinality(r.processing) = batch[1]
                     THEN "review" ELSE "prepare"
    /\ UNCHANGED <<configVars, ei, fs, hist, engineVars, store>>

\* one iteration of the loop of lines 239-264 whose call of
\* _build_transcode_group ended as r
Prepared(cand, r) ==
    /\ cache' = r.cache
    /\ saved' = IF r.op = "none" THEN saved ELSE _save(r.cache)
    /\ lastOp' = IF r.op = "none" THEN lastOp ELSE Touch(lastOp, cand[2], r.op, r.created)
    /\ processing' = r.processing
    /\ ci' = ci + 1
    /\ last' = Seen(cand, r.outcome, r.op, r.raised, r.global_resample)
    /\ IF r.raised = "KeyboardInterrupt"
       THEN pc' = "aborted" /\ UNCHANGED transcode_groups
       ELSE IF r.raised # "none" \/ r.ret = NoneT
       THEN UNCHANGED <<pc, transcode_groups>>
       ELSE /\ transcode_groups' = Append(transcode_groups, r.ret[1])
            /\ pc' = IF batch # NoneT /\ Cardinality(r.processing) = batch[1]
                     THEN "review" ELSE "prepare"
    /\ UNCHANGED <<configVars, ei, fs, hist, engineVars, store>>

\* a slip that would build every candidate without consulting the ledger
Prepare_unchecked ==
    /\ pc = "prepare"
    /\ ci < MaxCandidates
    /\ \E cand \in Candidates :
        IF FALSE
        THEN /\ ci' = ci + 1
             /\ last' = Seen(cand, "ignored", "none", "none", "undiscovered")
             /\ UNCHANGED <<ledgerVars, configVars, processing, transcode_groups, pc,
                            ei, fs, hist, engineVars, store>>
        ELSE \E fetch \in FetchEnvs :
            LET r0 == _build_transcode_group(processing, cache, fs, catalog, cand[1],
                                             cand[2], Config, Env(fetch, DefaultPrepEnv))
            IN  IF r0.outcome \in EarlyOutcomes
                THEN Prepared(cand, r0)
                ELSE \E pe \in PrepEnvs :
                        Prepared(cand, _build_transcode_group(
                            processing, cache, fs, catalog, cand[1], cand[2], Config,
                            Env(fetch, pe)))

\* one iteration of the loop of lines 239-264 on the next candidate
Prepare ==
    /\ pc = "prepare"
    /\ ci < MaxCandidates
    /\ \E cand \in Candidates :
        IF ~should_try(cache, cand[2], created_cutoff)
        THEN /\ ci' = ci + 1
             /\ last' = Seen(cand, "ignored", "none", "none", "undiscovered")
             /\ UNCHANGED <<ledgerVars, configVars, processing, transcode_groups, pc,
                            ei, fs, hist, engineVars, store>>
        ELSE \E fetch \in FetchEnvs :
            LET r0 == _build_transcode_group(processing, cache, fs, catalog, cand[1],
                                             cand[2], Config, Env(fetch, DefaultPrepEnv))
            IN  IF r0.outcome \in EarlyOutcomes
                THEN Prepared(cand, r0)
                ELSE \E pe \in PrepEnvs :
                        Prepared(cand, _build_transcode_group(
                            processing, cache, fs, catalog, cand[1], cand[2], Config,
                            Env(fetch, pe)))

\* the candidate stream is exhausted
EndOfCandidates ==
    /\ pc = "prepare"
    /\ pc' = "review"
    /\ last' = [kind |-> "none"]
    /\ UNCHANGED <<ledgerVars, configVars, ci, processing, transcode_groups, ei, fs,
                   hist, engineVars, store>>

RemoveAt(s, i) == [j \in 1 .. Len(s) - 1 |-> IF j < i THEN s[j] ELSE s[j + 1]]

\* lines 278-287: the operator drops a prepared release at the spectrogram review
ReviewDrop ==
    /\ pc = "review"
    /\ \E i \in 1 .. Len(transcode_groups) :
        LET g == transcode_groups[i]
        IN  /\ cache' = bad(cache, Some(g.group), g.torrent, "Rejected spectrograms")
            /\ saved' = _save(cache')
            /\ lastOp' = Touch(lastOp, g.torrent, "bad", NoneT)
            /\ transcode_groups' = RemoveAt(transcode_groups, i)
    /\ last' = [kind |-> "none"]
    /\ UNCHANGED <<configVars, ci, processing, pc, ei, fs, hist, engineVars, store>>

\* lines 275-276, 281-282 and 289: the review ends. The candidate iterator and
\* the dedup set are not read after the preparation loop: they are dropped.
ReviewContinue ==
    /\ pc = "review"
    /\ pc' = IF Len(transcode_groups) = 0 THEN "done" ELSE "execute"
    /\ ci' = 0
    /\ processing' = {}
    /\ last' = [kind |-> "none"]
    /\ UNCHANGED <<ledgerVars, configVars, transcode_groups, ei, fs, hist, engineVars, store>>

\* the directories of a release
OutputDirs(g) == {g.outputs[f] : f \in DOMAIN g.outputs}

\* an output directory holding every converted track and every planned extra
FullDir == "full"
\* an output directory an interrupted execute left behind
PartialDir == "partial"

WriteDirs(fsx, ds, content) ==
    [d \in DOMAIN fsx \cup ds |-> IF d \in ds THEN content ELSE fsx[d]]

\* a slip that would leave the output directories in place
cancel_nothing(fsx, outputDirs) == fsx

\* Transcode.cancel: shutil.rmtree of every output directory
cancel(fsx, outputDirs) == Restrict(fsx, DOMAIN fsx \ outputDirs)

\* Transcode.execute as the controller sees it: the file system it leaves.
\* An Exception is rolled back by cancel (lines 294-297); a KeyboardInterrupt
\* is no Exception and skips the rollback.
execute(fsx, g, result) ==
    IF result = "ok" THEN WriteDirs(fsx, OutputDirs(g), FullDir)
    ELSE IF result = "Exception" THEN cancel(fsx, OutputDirs(g))
    ELSE WriteDirs(fsx, OutputDirs(g), PartialDir)

\* the steps of lines 306-311: make_torrent, upload_torrent, shutil.move for
\* each format of the release
PublishSteps(g) == 3 * Cardinality(DOMAIN g.outputs)

\* a slip that would record completion once the first format is published
Published_first(g, failAt) == failAt = 0 \/ failAt > 3

\* lines 306-315 reach cache.complete: no step fails (failAt = 0)
Published(g, failAt) == failAt = 0

\* what execute does, the publication step that raises (failAt, 0 for none)
\* and what it raises, and what the operator does at the retry prompt
ExecEnvs(g) ==
    [execute : {"ok", "Exception", "KeyboardInterrupt"},
     failAt : 0 .. PublishSteps(g),
     publish : {"Exception", "KeyboardInterrupt"},
     answer : Prompt]

\* history: the items of which an earlier iteration of the execution loop failed
PreviouslyFailed == IF hist.kind = "executed" THEN hist.failed ELSE {}

\* a slip that would record every release the loop handled as complete
ExecutionRecord_complete(c, torrent, ok, answer) ==
    complete(c, Some(torrent.group), torrent.id)

\* lines 298, 312 and 314: the record an iteration of the execution loop
\* writes, the completion or the error with the operator's answer
ExecutionRecord(c, torrent, ok, answer) ==
    IF ok THEN complete(c, Some(torrent.group), torrent.id)
    ELSE _error_check_retry(c, torrent, "failed", answer)

\* one iteration of the loop of lines 295-320. An interrupt at the retry
\* prompt leaves the handler, and the run, before anything is recorded and
\* before line 319 cancels.
ExecuteRelease ==
    /\ pc = "execute"
    /\ ei < Len(transcode_groups)
    /\ LET g == transcode_groups[ei + 1]
           torrent == [group |-> g.group, id |-> g.torrent]
       IN  \E x \in ExecEnvs(g) :
            LET fs1 == execute(fs, g, x.execute)
                ok == x.execute = "ok" /\ Published(g, x.failAt)
            IN  /\ x.execute # "ok" => x.failAt = 0
                /\ (x.execute = "ok" /\ x.failAt = 0) => x.answer = "n"
                /\ (x.execute # "ok" \/ x.failAt = 0) => x.publish = "Exception"
                /\ cache' = ExecutionRecord(cache, torrent, ok, x.answer)
                /\ IF ok \/ x.answer \in Answers
                   THEN /\ saved' = _save(cache')
                        /\ lastOp' = Touch(lastOp, g.torrent,
                                           IF ok THEN "complete" ELSE ErrorOp(x.answer),
                                           NoneT)
                        /\ fs' = IF x.execute = "ok" /\ ~ok
                                 THEN cancel(fs1, OutputDirs(g)) ELSE fs1
                        /\ hist' = [kind |-> "executed",
                                    existed |-> OutputDirs(g) \cap DOMAIN fs # {},
                                    execute |-> x.execute,
                                    steps |-> IF x.execute # "ok" THEN 0
                                              ELSE IF x.failAt = 0 THEN PublishSteps(g)
                                              ELSE x.failAt - 1,
                                    publish |-> IF x.execute = "ok" /\ x.failAt # 0
                                                THEN x.publish ELSE "none",
                                    answer |-> x.answer,
                                    written |-> cache'[g.torrent],
                                    failed |-> IF ok THEN PreviouslyFailed
                                               ELSE PreviouslyFailed \cup {g.torrent}]
                        /\ ei' = ei + 1
                        /\ pc' = IF ei + 1 = Len(transcode_groups) THEN "done"
                                 ELSE "execute"
                   ELSE /\ fs' = fs1
                        /\ hist' = [kind |-> "interrupted"]
                        /\ pc' = "aborted"
                        /\ UNCHANGED <<saved, lastOp, ei>>
    /\ UNCHANGED <<configVars, ci, processing, transcode_groups, last, engineVars, store>>

(***************************************************************************)
(* Spec: batch runs over a catalog of three releases of one group.         *)
(***************************************************************************)
Torrent(id, group, label, encoding, time) ==
    [id |-> id, group |-> group, groupYear |-> 1999, media |-> "CD",
     remasterYear |-> Some(2001), remasterTitle |-> "",
     remasterRecordLabel |-> label, remasterCatalogueNumber |-> "",
     lossyMasterApproved |-> FALSE, lossyWebApproved |-> FALSE,
     encoding |-> encoding, reported |-> FALSE, trumpable |-> FALSE,
     hasLog |-> FALSE, logScore |-> 0, time |-> time, preemphasis |-> FALSE]

\* torrent 1 and torrent 2 are two 24-bit releases of the same edition (equal
\* grouping attributes); torrent 3 is a 16-bit release of another edition of
\* the same group
BatchCatalog ==
    (1 :> Torrent(1, 1, "A", "24bit Lossless", 1)) @@
    (2 :> Torrent(2, 1, "A", "24bit Lossless", 1)) @@
    (3 :> Torrent(3, 1, "B", "Lossless", MaxTime))

\* main.py line 82: --batch is any int the operator types, zero included
BatchSizes == {NoneT} \cup {Some(n) : n \in 0 .. MaxBatch}

Init ==
    /\ cache = EmptyCache
    /\ saved = EmptyCache
    /\ catalog = BatchCatalog
    /\ lastOp = [t \in DOMAIN BatchCatalog |-> Touched("none", NoneT)]
    /\ release_urls \in BOOLEAN
    /\ created_cutoff \in {NoneT, Some(MaxTime)}
    /\ batch \in BatchSizes
    /\ ci = 0
    /\ processing = {}
    /\ transcode_groups = <<>>
    /\ pc = "start"
    /\ ei = 0
    /\ fs = EmptyCache
    /\ hist = [kind |-> "none"]
    /\ IdleFilter /\ IdleEngine /\ IdleStore

Next ==
    \/ Start
    \/ Prepare
    \/ EndOfCandidates
    \/ ReviewDrop
    \/ ReviewContinue
    \/ ExecuteRelease

Spec == Init /\ [][Next]_vars

\* the release the execution loop handled last
Handled == transcode_groups[ei]

ExecuteFailed == hist.kind = "executed" /\ hist.execute = "Exception"

PublicationFailed ==
    hist.kind = "executed" /\ hist.execute = "ok" /\ hist.steps < PublishSteps(Handled)

ExecutionGoesOn ==
    /\ pc \in {"execute", "done"}
    /\ pc = "done" <=> ei = Len(transcode_groups)

\* C4 (as claimed): in one batch run no two prepared ReleaseUnits refer to
\* releases of the same group with identical grouping-key tuples, whether the
\* candidates carried the group id or not: the second candidate is skipped.
C4_OneUnitPerGroupingKey ==
    \A i, j \in 1 .. Len(transcode_groups) :
        i # j => ~(/\ transcode_groups[i].group = transcode_groups[j].group
                   /\ transcode_groups[i].grouping = transcode_groups[j].grouping)

\* C5 (as claimed): when Transcode.execute of a prepared release fails, the
\* ledger record written for the item is retry-eligible, and the controller
\* goes on with the next prepared release.
C5_ExecuteFailureIsRetryEligible ==
    ExecuteFailed =>
        /\ hist.written.error # None
        /\ hist.written.retry
        /\ ExecutionGoesOn

\* C5 (amended): when Transcode.execute of a prepared release fails, a ledger
\* error record is written for the item whose retryEligible is the operator's
\* answer to the retry prompt, and the controller goes on with the next
\* prepared release: the run does not abort, and it is done only when every
\* prepared release has been executed.
C5_ExecuteFailureIsRecordedAndIsolated ==
    ExecuteFailed =>
        /\ hist.written.error # None
        /\ hist.written.created = NoneT
        /\ hist.written.retry = (hist.answer = "y")
        /\ cache[Handled.torrent] = hist.written
        /\ ExecutionGoesOn

\* a failed execute the operator chose to retry, with another release still to run
C5_Witness ==
    /\ ExecuteFailed
    /\ hist.answer = "y"
    /\ pc = "execute"
    /\ ei < Len(transcode_groups)

\* C6 (as claimed): when execute succeeded and a publication step fails, the
\* ledger record written for the item is retry-eligible and every output
\* directory of the release is gone before the controller moves on.
C6_PublicationFailureIsRetryEligible ==
    PublicationFailed =>
        /\ hist.written.error # None
        /\ hist.written.retry
        /\ \A d \in OutputDirs(Handled) : d \notin DOMAIN fs

\* C6 (amended): when execute succeeded and a publication step fails (for any
\* format: bundle build, upload or move), a ledger error record is written for
\* the item whose retryEligible is the operator's answer to the retry prompt,
\* and Transcode.cancel has removed every output directory of the release
\* before the controller moves on to the next release.
C6_PublicationFailureIsRecordedAndRolledBack ==
    PublicationFailed =>
        /\ hist.written.error # None
        /\ hist.written.created = NoneT
        /\ hist.written.retry = (hist.answer = "y")
        /\ \A d \in OutputDirs(Handled) : d \notin DOMAIN fs
        /\ ExecutionGoesOn

\* the upload of the second format failed after the first format was published
C6_Witness ==
    /\ PublicationFailed
    /\ hist.steps = 4
    /\ Cardinality(DOMAIN Handled.outputs) = 2
    /\ hist.answer = "y"

\* C7, first part: the iteration of the execution loop writes a completion
\* record for the release exactly when its execute succeeded and every
\* publication step of every target format succeeded.
C7_CompletionIffPublished ==
    hist.kind = "executed" =>
        (hist.written.error = None
            <=> (hist.execute = "ok" /\ hist.steps = PublishSteps(Handled)))

\* C7 (as claimed): the first part, and a release of which a step failed does
\* not end the run with a completion record.
C7_CompletionOnlyForPublished ==
    /\ C7_CompletionIffPublished
    /\ pc = "done" => \A t \in PreviouslyFailed : cache[t].error # None


(***************************************************************************)
(* FilterSpec: runs over a catalog of one release whose metadata is any    *)
(* combination of the attributes the eligibility filter reads, with ledger *)
(* clearing and later runs under other cutoffs in between.                 *)
(***************************************************************************)
FilterTorrents ==
    [id : {1}, group : {1}, groupYear : {1999},
     media : {"CD", "Vinyl"},
     remasterYear : {NoneT, Some(0), Some(2001)},
     remasterTitle : {""}, remasterRecordLabel : {"A"}, remasterCatalogueNumber : {""},
     lossyMasterApproved : BOOLEAN, lossyWebApproved : BOOLEAN,
     encoding : {"24bit Lossless", "Lossless", "320", "APS (VBR)"},
     reported : BOOLEAN, trumpable : BOOLEAN,
     hasLog : BOOLEAN, logScore : {99, 100},
     time : Times, preemphasis : {FALSE}]

FilterInit ==
    /\ cache = EmptyCache
    /\ saved = EmptyCache
    /\ \E torrent \in FilterTorrents :
        /\ torrent.lossyMasterApproved => ~torrent.lossyWebApproved
        /\ torrent.reported => ~torrent.trumpable
        /\ ~torrent.hasLog => torrent.logScore = 100
        /\ catalog = (1 :> torrent)
    /\ lastOp = [t \in {1} |-> Touched("none", NoneT)]
    /\ release_urls = FALSE
    /\ created_cutoff \in Cutoffs
    /\ batch = NoneT
    /\ ci = 0
    /\ processing = {}
    /\ transcode_groups = <<>>
    /\ pc = "start"
    /\ ei = 0
    /\ fs = EmptyCache
    /\ hist = [kind |-> "none"]
    /\ IdleFilter /\ IdleEngine /\ IdleStore

\* the process has ended; a later run starts: Cache.__init__ loads the
\* snapshot, transcode_online starts over with the cutoff of that day
NewRun ==
    /\ pc \in {"review", "aborted"}
    /\ cache' = saved
    /\ \E cutoff \in Cutoffs : created_cutoff' = cutoff
    /\ ci' = 0
    /\ processing' = {}
    /\ transcode_groups' = <<>>
    /\ pc' = "start"
    /\ last' = [kind |-> "none"]
    /\ UNCHANGED <<saved, lastOp, release_urls, batch, catalog, ei, fs, hist, engineVars, store>>

\* between two runs the operator clears the ledger: cache_clear (modes.py) on
\* the loaded snapshot, for one argument, 'errors' or an item id
FilterClear ==
    /\ pc \in {"review", "aborted"}
    /\ \E type \in {"errors"} \cup {Str(Some(t)) : t \in DOMAIN catalog} :
        LET r == IF type = "errors" THEN clear(saved, NoneT, TRUE)
                 ELSE clear(saved, Some(CHOOSE t \in DOMAIN catalog : Str(Some(t)) = type),
                            FALSE)
        IN  /\ cache' = r.cache
            /\ saved' = IF r.raised THEN saved ELSE _save(r.cache)
            /\ lastOp' = TouchCleared(lastOp, saved, saved')
    /\ last' = [kind |-> "none"]
    /\ UNCHANGED <<configVars, batchVars, engineVars, store>>

FilterNext ==
    \/ Start
    \/ Prepare
    \/ EndOfCandidates
    \/ NewRun
    \/ FilterClear

FilterSpec == FilterInit /\ [][FilterNext]_vars

\* the failures of one candidate that are neither an interrupt nor an error
\* of the tracker: lines 77-78 and 109 (metadata that cannot be parsed), line
\* 116 (no source directory), lines 123 and 159 (the construction failed),
\* line 140 (nothing to resample in a 24 bit release)
LocalFailures == {"unparsable", "no_source", "prepare_failed", "not_24bit"}

\* C30: a failure local to one candidate, other than an interrupt or an error
\* of the tracker, is caught by the loop, leaves a ledger outcome for that item
\* and lets the run go on with the next candidate
C30_LocalFailureLeavesALedgerOutcome ==
    (/\ last.kind = "candidate"
     /\ last.outcome \in LocalFailures
     /\ last.raised # "KeyboardInterrupt")
    => /\ last.op # "none"
       /\ last.torrent \in DOMAIN cache
       /\ cache[last.torrent].error # None
       /\ pc # "aborted"

\* an item whose encoding the tracker module does not know went through the
\* loop: the run goes on, and the ledger has nothing about the item
C30_Witness ==
    /\ last.kind = "candidate"
    /\ last.outcome = "unparsable"
    /\ from_encoding(catalog[last.torrent].encoding) = "ValueError"
    /\ last.op = "none"
    /\ last.torrent \notin DOMAIN cache
    /\ pc = "prepare"

\* the last candidate got as far as the eligibility filter
ReachedFilter ==
    /\ last.kind = "candidate"
    /\ last.outcome \notin {"ignored", "interrupted", "invalid", "duplicate", "unparsable"}

\* the conditions of the eligibility filter, by their number
Condition(n, torrent, cutoff) ==
    CASE n = 1 -> torrent.remasterYear = Some(0)
      [] n = 2 -> torrent.lossyMasterApproved \/ torrent.lossyWebApproved
      [] n = 3 -> torrent.encoding \notin {"24bit Lossless", "Lossless"}
      [] n = 4 -> torrent.reported \/ torrent.trumpable
      [] n = 5 -> Lower(torrent.media) \notin Config.allowed_media
      [] n = 6 -> torrent.hasLog /\ torrent.logScore < 100
      [] n = 7 -> cutoff # NoneT /\ torrent.time >= cutoff[1]

ReasonOf ==
    <<"unknown_year", "lossy_master", "not_lossless", "reported_trumpable",
      "disallowed_media", "bad_log", "too_recent">>

Matching(torrent, cutoff) == {n \in 1 .. 7 : Condition(n, torrent, cutoff)}

First(S) == CHOOSE n \in S : \A m \in S : n <= m

\* C8: for a candidate that reaches the eligibility filter, the ledger
\* operation and the reason written are those of the lowest-numbered condition
\* that matches in the order 1 unknown year, 2 lossy master/web, 3 not
\* lossless, 4 reported or trumpable, 5 disallowed media, 6 log score below
\* 100, 7 too recent: recordBad for 1-6, recordRetryLater for 7; an item no
\* condition matches is not rejected.
C8_FirstMatchingConditionDecides ==
    ReachedFilter =>
        LET torrent == catalog[last.torrent]
            matching == Matching(torrent, created_cutoff)
        IN  IF matching = {}
            THEN last.outcome \notin PermanentReasons \cup {"too_recent"}
            ELSE /\ last.outcome = ReasonOf[First(matching)]
                 /\ last.op = IF First(matching) <= 6 THEN "bad" ELSE "retry"
                 /\ cache[last.torrent].error = ReasonOf[First(matching)]

\* an item that is both unknown-year and disallowed-media, and lossy besides,
\* rejected with the unknown-year reason
C8_Witness ==
    /\ ReachedFilter
    /\ catalog[last.torrent].remasterYear = Some(0)
    /\ catalog[last.torrent].media = "Vinyl"
    /\ catalog[last.torrent].encoding = "320"
    /\ last.outcome = "unknown_year"
    /\ cache[last.torrent].error = "unknown_year"

PassesPermanentConditions(torrent) ==
    \A n \in 1 .. 6 : ~Condition(n, torrent, NoneT)

\* what C9 says of a deferral: the record written, and when the item is due
DeferralRecorded(torrent) ==
    /\ last.op = "retry"
    /\ cache[torrent.id].error # None
    /\ cache[torrent.id].retry
    /\ cache[torrent.id].created = Some(torrent.time)
    /\ saved = cache
    /\ ~should_try(cache, torrent.id, created_cutoff)
    /\ \A later \in Cutoffs :
        (later # NoneT /\ torrent.time < later[1]) => should_try(cache, torrent.id, later)

\* C9 (as claimed): an item that passes conditions 1-6 is deferred if and only
\* if a cutoff is configured and the item's creation time is newer than the
\* cutoff; the deferral writes a retry-eligible record with createdAt = the
\* creation time, not due under the same cutoff, due under a later cutoff
\* after the creation time.
C9_DeferredIffNewerThanCutoff ==
    (ReachedFilter /\ PassesPermanentConditions(catalog[last.torrent])) =>
        LET torrent == catalog[last.torrent]
        IN  /\ last.outcome = "too_recent"
                <=> (created_cutoff # NoneT /\ torrent.time > created_cutoff[1])
            /\ last.outcome = "too_recent" => DeferralRecorded(torrent)

\* C9 (amended): an item that passes conditions 1-6 is deferred if and only if
\* a cutoff is configured and the item's creation time is at or after the
\* cutoff (not earlier than it); the deferral writes a retry-eligible record
\* with createdAt = the creation time, not due under the same cutoff, due
\* under any later cutoff that is after the creation time.
C9_DeferredIffNotOlderThanCutoff ==
    (ReachedFilter /\ PassesPermanentConditions(catalog[last.torrent])) =>
        LET torrent == catalog[last.torrent]
        IN  /\ last.outcome = "too_recent"
                <=> (created_cutoff # NoneT /\ torrent.time >= created_cutoff[1])
            /\ last.outcome = "too_recent" => DeferralRecorded(torrent)

\* a deferral of an item created exactly at the cutoff, with a later cutoff
\* under which it is due
C9_Witness ==
    /\ ReachedFilter
    /\ last.outcome = "too_recent"
    /\ created_cutoff = Some(catalog[last.torrent].time)
    /\ \E later \in Cutoffs : should_try(cache, last.torrent, later)

\* C10: a permanent rejection by the eligibility filter (conditions 1-6)
\* writes a record with a non-null error and retryEligible = false and
\* prepares no ReleaseUnit; as long as no clear removed the record, in this
\* run and in later runs, the record stands, the item is due under no cutoff
\* and no ReleaseUnit of the item is prepared.
C10_PermanentRejectionIsFinal ==
    /\ (ReachedFilter /\ last.outcome \in PermanentReasons) =>
            /\ last.op = "bad"
            /\ lastOp[last.torrent].op = "bad"
            /\ saved = cache
    /\ \A t \in DOMAIN lastOp :
        lastOp[t].op = "bad" =>
            /\ t \in DOMAIN cache
            /\ cache[t].error # None
            /\ ~cache[t].retry
            /\ \A cutoff \in Cutoffs : ~should_try(cache, t, cutoff)
            /\ \A i \in 1 .. Len(transcode_groups) : transcode_groups[i].torrent # t

\* a later run under a cutoff that would let the item through ignores the
\* item that an earlier run rejected for its log
C10_Witness ==
    /\ lastOp[1].op = "bad"
    /\ cache[1].error = "bad_log"
    /\ ci = 1
    /\ last.kind = "candidate"
    /\ last.outcome = "ignored"
    /\ created_cutoff = NoneT


(***************************************************************************)
(* TranscodeSpec: one Transcode.execute (src/src/transcode.py) with its    *)
(* conversion pool, thread by thread.                                      *)
(***************************************************************************)
MaxTracks == 2     \* tracks of the release, at most
MaxExtras == 1     \* additional files of the release, at most
MaxWorkers == 2    \* Transcode.max_workers, at most

FormatOrder == <<"FLAC_16", "MP3_320">>

\* the Transcode objects executed: outputs maps each target format to its
\* output directory
Transcodes ==
    {[tracks |-> [i \in 1 .. n |-> "KHZ_44_1"],
      outputs |-> [f \in F |-> build_output_dir(BatchCatalog[1], f)],
      additional_files |-> a,
      max_workers |-> w] :
        n \in 1 .. MaxTracks,
        F \in (SUBSET {"FLAC_16", "MP3_320"}) \ {{}},
        a \in 0 .. MaxExtras,
        w \in 1 .. MaxWorkers}

\* _transcode_parallel line 266: one task per track and per transcode of the
\* track, in submission order
Tasks(tr) ==
    LET pairs == [k \in 1 .. 2 * Len(tr.tracks) |->
                    <<((k - 1) \div 2) + 1, FormatOrder[((k - 1) % 2) + 1]>>]
        wanted(p) == p[2] \in DOMAIN tr.outputs
    IN  SelectSeq(pairs, wanted)

\* Transcode.additional_files: one (file, output) pair per additional file and
\* per output directory, in the order execute links them
Additional(tr) ==
    LET pairs == [k \in 1 .. 2 * tr.additional_files |->
                    <<((k - 1) \div 2) + 1, FormatOrder[((k - 1) % 2) + 1]>>]
        wanted(p) == p[2] \in DOMAIN tr.outputs
    IN  SelectSeq(pairs, wanted)

Range(f) == {f[x] : x \in DOMAIN f}

AddEntry(d, dir, entry) == [d EXCEPT ![dir] = @ \cup {entry}]

Linked(tr, d) ==
    Cardinality({p \in Range(Additional(tr)) :
                    /\ tr.outputs[p[2]] \in DOMAIN d
                    /\ <<"extra", p[1]>> \in d[tr.outputs[p[2]]]})

Running == {k \in DOMAIN tstate : tstate[k] = "running"}

TranscodeInit ==
    /\ cache = EmptyCache
    /\ saved = EmptyCache
    /\ lastOp = <<>>
    /\ IdleConfig /\ IdleBatch /\ IdleFilter /\ IdleStore
    /\ transcode \in Transcodes
    /\ tstate = <<>>
    /\ dirs = EmptyCache
    /\ xpc = "start"
    /\ xhist = [failure |-> "none", cancelled |-> FALSE, late |-> FALSE]

EngineFrame == UNCHANGED <<ledgerVars, configVars, batchVars, last, transcode, store>>

\* _transcode_parallel lines 262-266: the folders are made and the tasks are
\* submitted; a mkdir that raises leaves the folders made before it
Mkdirs ==
    /\ xpc = "start"
    /\ \E made \in SUBSET Range(transcode.outputs) :
        /\ dirs' = [d \in made |-> {}]
        /\ IF made = Range(transcode.outputs)
           THEN /\ tstate' = [k \in DOMAIN Tasks(transcode) |-> "pending"]
                /\ xpc' = "wait"
                /\ UNCHANGED xhist
           ELSE /\ xhist' = [xhist EXCEPT !.failure = "Exception"]
                /\ xpc' = "cancel"
                /\ UNCHANGED tstate
    /\ EngineFrame

\* a worker of the pool takes the oldest queued task; the workers serve the
\* queue until shutdown has joined them
TaskStart ==
    /\ xpc \in {"wait", "results", "shutdown"}
    /\ Cardinality(Running) < transcode.max_workers
    /\ \E k \in DOMAIN tstate :
        /\ tstate[k] = "pending"
        /\ \A j \in 1 .. k - 1 : tstate[j] # "pending"
        /\ tstate' = [tstate EXCEPT ![k] = "running"]
    /\ xhist' = IF \E j \in DOMAIN tstate : tstate[j] = "failed"
                THEN [xhist EXCEPT !.late = TRUE] ELSE xhist
    /\ UNCHANGED <<dirs, xpc>>
    /\ EngineFrame

\* _transcode_one returns: the output is written, tagged and checked
TaskDone ==
    /\ \E k \in Running :
        LET task == Tasks(transcode)[k]
        IN  /\ tstate' = [tstate EXCEPT ![k] = "done"]
            /\ dirs' = AddEntry(dirs, transcode.outputs[task[2]], <<"track", task[1]>>)
    /\ UNCHANGED <<xpc, xhist>>
    /\ EngineFrame

\* _transcode_one raises TranscodeException: the conversion failed and left
\* nothing or a truncated output, or the tag check of the output failed
TaskFail ==
    /\ \E k \in Running, left \in {"nothing", "truncated", "untagged"} :
        LET task == Tasks(transcode)[k]
        IN  /\ tstate' = [tstate EXCEPT ![k] = "failed"]
            /\ dirs' = IF left = "nothing" THEN dirs
                       ELSE AddEntry(dirs, transcode.outputs[task[2]], <<left, task[1]>>)
    /\ UNCHANGED <<xpc, xhist>>
    /\ EngineFrame

\* line 268: wait(tasks, return_when=FIRST_EXCEPTION) returns
WaitReturns ==
    /\ xpc = "wait"
    /\ \/ \E k \in DOMAIN tstate : tstate[k] = "failed"
       \/ \A k \in DOMAIN tstate : tstate[k] = "done"
    /\ xpc' = "results"
    /\ UNCHANGED <<tstate, dirs, xhist>>
    /\ EngineFrame

\* a slip that would leave the results of the finished tasks unread
Results_unread ==
    /\ xpc = "results"
    /\ xpc' = "shutdown"
    /\ UNCHANGED <<tstate, dirs, xhist>>
    /\ EngineFrame

\* lines 270-275: future.result() of a failed task raises, and so does a
\* task left in not_done
Results ==
    /\ xpc = "results"
    /\ xhist' = IF \A k \in DOMAIN tstate : tstate[k] = "done" THEN xhist
                ELSE [xhist EXCEPT !.failure = "Exception"]
    /\ xpc' = "shutdown"
    /\ UNCHANGED <<tstate, dirs>>
    /\ EngineFrame

\* the operator interrupts the thread running execute
Interrupt ==
    /\ xpc \in {"wait", "link"}
    /\ xhist' = [xhist EXCEPT !.failure = "KeyboardInterrupt"]
    /\ xpc' = IF xpc = "wait" THEN "shutdown" ELSE "raised"
    /\ UNCHANGED <<tstate, dirs>>
    /\ EngineFrame

\* a slip that would leave the pool with shutdown(wait=False)
Joined_nowait(ts) == TRUE

\* shutdown(wait=True) has joined the workers: they have served the whole
\* queue, no task is queued or running
Joined(ts) == \A k \in DOMAIN ts : ts[k] \in {"done", "failed"}

\* the with block of line 265 is left: ThreadPoolExecutor.__exit__ returns
\* once shutdown(wait=True) has joined the workers. An Exception goes to the
\* handler of line 294, a KeyboardInterrupt passes it by.
Shutdown ==
    /\ xpc = "shutdown"
    /\ Joined(tstate)
    /\ xpc' = CASE xhist.failure = "none" -> "link"
                [] xhist.failure = "Exception" -> "cancel"
                [] OTHER -> "raised"
    /\ UNCHANGED <<tstate, dirs, xhist>>
    /\ EngineFrame

\* lines 289-292: the next additional file is linked, or os.link raises
Link ==
    /\ xpc = "link"
    /\ Linked(transcode, dirs) < Len(Additional(transcode))
    /\ LET p == Additional(transcode)[Linked(transcode, dirs) + 1]
       IN  \E ok \in BOOLEAN :
            IF ok
            THEN /\ dirs' = AddEntry(dirs, transcode.outputs[p[2]], <<"extra", p[1]>>)
                 /\ UNCHANGED <<xpc, xhist>>
            ELSE /\ xhist' = [xhist EXCEPT !.failure = "Exception"]
                 /\ xpc' = "cancel"
                 /\ UNCHANGED dirs
    /\ UNCHANGED tstate
    /\ EngineFrame

\* execute returns
Return ==
    /\ xpc = "link"
    /\ Linked(transcode, dirs) = Len(Additional(transcode))
    /\ xpc' = "returned"
    /\ UNCHANGED <<tstate, dirs, xhist>>
    /\ EngineFrame

\* lines 294-297: the handler calls cancel and raises the exception again
Cancel ==
    /\ xpc = "cancel"
    /\ dirs' = cancel(dirs, Range(transcode.outputs))
    /\ xhist' = [xhist EXCEPT !.cancelled = TRUE]
    /\ xpc' = "raised"
    /\ UNCHANGED tstate
    /\ EngineFrame

TranscodeNext ==
    \/ Mkdirs
    \/ TaskStart
    \/ TaskDone
    \/ TaskFail
    \/ WaitReturns
    \/ Results
    \/ Interrupt
    \/ Shutdown
    \/ Link
    \/ Return
    \/ Cancel

TranscodeSpec == TranscodeInit /\ [][TranscodeNext]_vars

\* an output directory holding every track in its format and every planned
\* additional file, and nothing else
FullyPopulated(tr, d, dir) ==
    d[dir] = {<<"track", i>> : i \in DOMAIN tr.tracks}
                \cup {<<"extra", j>> : j \in 1 .. tr.additional_files}

C32_LinkingFollowsEveryConversion ==
    /\ Linked(transcode, dirs) > 0 =>
            /\ DOMAIN tstate = DOMAIN Tasks(transcode)
            /\ \A k \in DOMAIN tstate : tstate[k] = "done"
    /\ (\E k \in DOMAIN tstate : tstate[k] = "failed") =>
            /\ xpc # "link"
            /\ \A dir \in DOMAIN dirs : \A j \in 1 .. transcode.additional_files :
                    <<"extra", j>> \notin dirs[dir]

\* the additional file of a release of two tracks with two targets is being
\* linked: it is in the first output directory and not yet in the second,
\* and the four conversions are done
C32_Witness ==
    /\ xpc = "link"
    /\ Len(Tasks(transcode)) = 4
    /\ Len(Additional(transcode)) = 2
    /\ Linked(transcode, dirs) = 1
    /\ \A k \in DOMAIN tstate : tstate[k] = "done"


(***************************************************************************)
(* NeededSpec: preparation over a group of two releases, the second a      *)
(* sibling of the first in any relation the format planning looks at.      *)
(***************************************************************************)
NeededCatalogs ==
    {(1 :> [Torrent(1, 1, "A", e1, 1) EXCEPT !.preemphasis = pre]) @@
     (2 :> [Torrent(2, 1, l2, e2, 1) EXCEPT !.trumpable = flags[1],
                                           !.reported = flags[2]]) :
        e1 \in {"24bit Lossless", "Lossless"},
        pre \in BOOLEAN,
        l2 \in {"A", "B"},
        e2 \in {"24bit Lossless", "Lossless", "320", "V0 (VBR)"},
        flags \in {<<FALSE, FALSE>>, <<TRUE, FALSE>>, <<FALSE, TRUE>>}}

NeededInit ==
    /\ cache = EmptyCache
    /\ saved = EmptyCache
    /\ catalog \in NeededCatalogs
    /\ lastOp = [t \in {1, 2} |-> Touched("none", NoneT)]
    /\ release_urls = FALSE
    /\ created_cutoff = NoneT
    /\ batch = NoneT
    /\ ci = 0
    /\ processing = {}
    /\ transcode_groups = <<>>
    /\ pc = "start"
    /\ ei = 0
    /\ fs = EmptyCache
    /\ hist = [kind |-> "none"]
    /\ IdleFilter /\ IdleEngine /\ IdleStore

NeededNext ==
    \/ Start
    \/ Prepare
    \/ EndOfCandidates

NeededSpec == NeededInit /\ [][NeededNext]_vars

\* the ledger operations of _error_check_retry
ErrorOps == {"error_retry", "error_final"}

\* C31: a prepared release whose catalog encoding is not 24-bit lossless and
\* whose discovered global resample decision is not KEEP has the 16-bit
\* lossless format among its outputs; a candidate whose catalog encoding is
\* 24-bit lossless and whose discovered decision is KEEP is not prepared and,
\* unless the operator interrupts the prompt, gets a ledger error
C31_ReplannedWithA16BitTarget ==
    /\ \A i \in 1 .. Len(transcode_groups) :
        LET g == transcode_groups[i]
        IN  /\ (catalog[g.torrent].encoding # "24bit Lossless"
                    /\ g.global_resample # "KEEP")
               => "FLAC_16" \in DOMAIN g.outputs
            /\ ~(catalog[g.torrent].encoding = "24bit Lossless"
                    /\ g.global_resample = "KEEP")
    /\ (/\ last.kind = "candidate"
        /\ catalog[last.torrent].encoding = "24bit Lossless"
        /\ last.global_resample = "KEEP"
        /\ last.outcome # "interrupted")
       => /\ last.outcome \in {"not_24bit", "prepare_failed"}
          /\ last.op \in ErrorOps
          /\ last.torrent \in DOMAIN cache
          /\ cache[last.torrent].error # None
          /\ \A i \in 1 .. Len(transcode_groups) :
                transcode_groups[i].torrent # last.torrent

\* a release listed as 24-bit whose tracks need no resampling was turned down
\* with a ledger error, and after it a release listed as 16-bit whose tracks
\* all need resampling was prepared with the added target
C31_Witness ==
    /\ \E t \in DOMAIN cache :
        /\ catalog[t].encoding = "24bit Lossless"
        /\ cache[t].error = "not_24bit"
        /\ lastOp[t].op \in ErrorOps
    /\ last.kind = "candidate"
    /\ last.outcome = "prepared"
    /\ catalog[last.torrent].encoding = "Lossless"
    /\ last.global_resample \in Resamples \ {"KEEP"}
    /\ \E i \in 1 .. Len(transcode_groups) :
        /\ transcode_groups[i].torrent = last.torrent
        /\ "FLAC_16" \in DOMAIN transcode_groups[i].outputs

\* the last candidate passed conditions 1-7 and its formats were planned
PassedFilter ==
    /\ ReachedFilter
    /\ last.outcome \notin PermanentReasons \cup {"too_recent"}

\* neededFormats as the specification words it
NeededFormats(torrent) ==
    IF torrent.preemphasis THEN {}
    ELSE ConfigAllowedFormats \
            {f \in DOMAIN FormatTable :
                \E u \in DOMAIN catalog :
                    /\ catalog[u].group = torrent.group
                    /\ GroupingAttributes(catalog[u]) = GroupingAttributes(torrent)
                    /\ ~catalog[u].trumpable /\ ~catalog[u].reported
                    /\ FormatTable[f].encoding = catalog[u].encoding}

\* the release prepared for the last candidate
LastPrepared == transcode_groups[Len(transcode_groups)]

\* the first half of C11: an item with no needed format is recorded as
\* terminal success and prepares nothing, an item with a needed format is not
\* recorded as success
NeededDecides(torrent) ==
    /\ last.outcome = "nothing_needed" <=> NeededFormats(torrent) = {}
    /\ last.outcome = "nothing_needed" =>
        /\ last.op = "complete"
        /\ cache[torrent.id].error = None
        /\ \A i \in 1 .. Len(transcode_groups) :
                transcode_groups[i].torrent # torrent.id

\* C11 (as claimed): for an item passing conditions 1-7, neededFormats is the
\* configured formats minus those of the live siblings of the same grouping
\* key, empty for a pre-emphasized transfer; when it is empty the item is
\* recorded as terminal success and nothing is prepared, otherwise a prepared
\* item has exactly neededFormats as targets.
C11_PreparedWithExactlyNeededFormats ==
    PassedFilter =>
        LET torrent == catalog[last.torrent]
        IN  /\ NeededDecides(torrent)
            /\ last.outcome = "prepared" =>
                    DOMAIN LastPrepared.outputs = NeededFormats(torrent)

\* C11 (amended): as above, except that the targets of a prepared item are
\* neededFormats, with the 16-bit lossless format added when the item is not
\* declared 24-bit and its tracks turn out to need resampling.
C11_PreparedWithNeededFormatsReplanned ==
    PassedFilter =>
        LET torrent == catalog[last.torrent]
            replanned == /\ from_encoding(torrent.encoding) # "FLAC_24"
                         /\ LastPrepared.global_resample # "KEEP"
        IN  /\ NeededDecides(torrent)
            /\ last.outcome = "prepared" =>
                /\ LastPrepared.torrent = torrent.id
                /\ DOMAIN LastPrepared.outputs =
                        NeededFormats(torrent)
                            \cup (IF replanned THEN {"FLAC_16"} ELSE {})

\* a 24-bit item whose sibling of the same edition is a trumpable MP3 320:
\* the sibling's format is planned again
C11_Witness ==
    /\ PassedFilter
    /\ last.outcome = "prepared"
    /\ last.torrent = 1
    /\ catalog[2].trumpable
    /\ catalog[2].encoding = "320"
    /\ GroupingAttributes(catalog[2]) = GroupingAttributes(catalog[1])
    /\ DOMAIN LastPrepared.outputs = {"FLAC_16", "MP3_320"}


\* C12 (as claimed): a KeyboardInterrupt arriving during candidate
\* preparation, Transcode.execute or publication leaves the batch: the run is
\* aborted, no ledger entry is written for the item being processed, and no
\* further item is processed.
C12_InterruptLeavesTheBatch ==
    /\ (pc = "aborted" /\ last.kind = "candidate") => last.op = "none"
    /\ hist.kind = "executed" =>
            /\ hist.execute # "KeyboardInterrupt"
            /\ hist.publish # "KeyboardInterrupt"

\* an interrupt of the tracker request during preparation does leave the batch
C12_Witness ==
    /\ pc = "aborted"
    /\ last.kind = "candidate"
    /\ last.outcome = "interrupted"
    /\ last.torrent \notin DOMAIN cache


\* C13 (as claimed): once a conversion task of the release has failed, no
\* task that had not yet started is started afterwards.
C13_NoTaskStartsAfterFailure == ~xhist.late

\* a task was started after the first task had failed, with one worker
C13_Witness ==
    /\ xhist.late
    /\ transcode.max_workers = 1
    /\ tstate[1] = "failed"

\* C14: from the moment cancel is about to delete the output directories of a
\* failed execute, and ever after, no conversion task of the release is
\* running or still queued, so none writes into an output directory.
C14_CancelAfterPoolQuiesced ==
    (xpc = "cancel" \/ xhist.cancelled) =>
        \A k \in DOMAIN tstate : tstate[k] \in {"done", "failed"}

\* cancel has run after a failure that was followed by a late task, which had
\* written its output before the directories were removed
C14_Witness ==
    /\ xhist.cancelled
    /\ xhist.late
    /\ \E j, k \in DOMAIN tstate : tstate[j] = "failed" /\ tstate[k] = "done"


(***************************************************************************)
(* ResampleSpec: Transcode.__init__ deciding the resampling of a release   *)
(* from the stream info of its tracks (src/src/transcode.py).              *)
(***************************************************************************)
\* a slip that would resample only what is both deeper than 16 bits and
\* faster than 48 kHz
_get_resample_and(bits_per_sample, sample_rate) ==
    IF bits_per_sample > 16 /\ sample_rate > 48000
    THEN IF sample_rate % 44100 = 0 THEN "KHZ_44_1"
         ELSE IF sample_rate % 48000 = 0 THEN "KHZ_48"
         ELSE "ValueError"
    ELSE "KEEP"

\* _get_resample: the decision for one track, or the ValueError it raises
_get_resample(bits_per_sample, sample_rate) ==
    IF bits_per_sample > 16 \/ sample_rate > 48000
    THEN IF sample_rate % 44100 = 0 THEN "KHZ_44_1"
         ELSE IF sample_rate % 48000 = 0 THEN "KHZ_48"
         ELSE "ValueError"
    ELSE "KEEP"

\* the stream info of a track: bits per sample and sample rate. 7056000 is a
\* multiple of both 44100 and 48000.
StreamInfos ==
    {<<bits, rate>> : bits \in {16, 24},
                      rate \in {32000, 44100, 48000, 50000, 88200, 96000, 7056000}}

ResampleInit ==
    /\ cache = EmptyCache
    /\ saved = EmptyCache
    /\ lastOp = <<>>
    /\ IdleConfig /\ IdleBatch /\ IdleFilter /\ IdleStore
    /\ \E n \in 1 .. MaxTracks :
        \E metadata \in [1 .. n -> StreamInfos] : transcode = [metadata |-> metadata]
    /\ tstate = <<>>
    /\ dirs = <<>>
    /\ xpc = "init"
    /\ xhist = [failure |-> "none", cancelled |-> FALSE, late |-> FALSE]

ResampleFrame ==
    UNCHANGED <<ledgerVars, configVars, batchVars, last, tstate, dirs, xhist, store>>

\* Transcode.__init__ line 183: self.tracks = list(self._get_tracks()); the
\* ValueError of a track surfaces here
GetTracks ==
    /\ xpc = "init"
    /\ LET metadata == transcode.metadata
           resamples == [i \in DOMAIN metadata |->
                            _get_resample(metadata[i][1], metadata[i][2])]
       IN  IF \E i \in DOMAIN resamples : resamples[i] = "ValueError"
           THEN xpc' = "raised" /\ UNCHANGED transcode
           ELSE /\ transcode' = [metadata |-> metadata, tracks |-> resamples]
                /\ xpc' = "tracks"
    /\ ResampleFrame

\* Transcode.__init__ line 184: self.global_resample = self._get_global_resample()
GetGlobalResample ==
    /\ xpc = "tracks"
    /\ transcode' = [metadata |-> transcode.metadata, tracks |-> transcode.tracks,
                     global_resample |-> _get_global_resample(transcode.tracks)]
    /\ xpc' = "constructed"
    /\ ResampleFrame

ResampleNext ==
    \/ GetTracks
    \/ GetGlobalResample

ResampleSpec == ResampleInit /\ [][ResampleNext]_vars

\* C15: for every non-empty list of per-track decisions the global decision
\* is KEEP iff every track is KEEP, is 44.1K (48K) iff every track is 44.1K
\* (48K), and is MIXED (None) in every other case; [KEEP, 44.1K] gives MIXED,
\* [44.1K, 44.1K] gives 44.1K and [KEEP, KEEP] gives KEEP.
C15_GlobalResampleIsTheCommonDecision ==
    xpc = "constructed" =>
        LET l == transcode.tracks
            g == transcode.global_resample
            all(v) == \A i \in DOMAIN l : l[i] = v
        IN  /\ \A v \in Resamples : g = v <=> all(v)
            /\ g = None <=> ~\E v \in Resamples : all(v)
            /\ l = <<"KEEP", "KHZ_44_1">> => g = None
            /\ l = <<"KHZ_44_1", "KHZ_44_1">> => g = "KHZ_44_1"
            /\ l = <<"KEEP", "KEEP">> => g = "KEEP"

\* a release of a 16-bit/44.1 kHz track and a 24-bit/88.2 kHz track: MIXED
C15_Witness ==
    /\ xpc = "constructed"
    /\ transcode.tracks = <<"KEEP", "KHZ_44_1">>
    /\ transcode.global_resample = None

\* the decision C16 gives for a stream info
Decision(bits, rate) ==
    CASE bits <= 16 /\ rate <= 48000 -> "KEEP"
      [] OTHER -> CASE \E m \in 0 .. 200 : rate = m * 44100 -> "KHZ_44_1"
                    [] \E m \in 0 .. 200 : rate = m * 48000 -> "KHZ_48"
                    [] OTHER -> "ValueError"

\* C16: for every (bit depth, sample rate) the per-track decision is KEEP when
\* the depth is at most 16 and the rate at most 48000, otherwise 44.1K when
\* the rate is a multiple of 44100, otherwise 48K when it is a multiple of
\* 48000, otherwise the unsupported-rate error, which fails the construction;
\* a 24-bit/96000 Hz track resolves to 48K.
C16_ResampleDecisionPerTrack ==
    /\ xpc \in {"tracks", "constructed"} =>
        \A i \in DOMAIN transcode.metadata :
            /\ transcode.tracks[i] =
                    Decision(transcode.metadata[i][1], transcode.metadata[i][2])
            /\ transcode.metadata[i] = <<24, 96000>> => transcode.tracks[i] = "KHZ_48"
    /\ xpc # "init" =>
        (xpc = "raised" <=>
            \E i \in DOMAIN transcode.metadata :
                Decision(transcode.metadata[i][1], transcode.metadata[i][2])
                    = "ValueError")

\* a 24-bit/96 kHz track next to a 16-bit/96 kHz track: both resolve to 48K
C16_Witness ==
    /\ xpc = "tracks"
    /\ transcode.metadata = <<<<24, 96000>>, <<16, 96000>>>>
    /\ transcode.tracks = <<"KHZ_48", "KHZ_48">>


(***************************************************************************)
(* Further properties of the ledger, under LedgerSpec.                     *)
(***************************************************************************)
\* C17: for every ledger state, item id and cutoff, isDue (Cache.should_try)
\* is true iff no record exists for the id, or the record has a non-null
\* error, is retry-eligible and (createdAt is null, or the cutoff is null, or
\* createdAt < cutoff).
C17_DueIffAbsentOrRetryableBeforeCutoff ==
    \A t \in LedgerIds, cutoff \in Cutoffs :
        should_try(cache, t, cutoff)
            <=> \/ t \notin DOMAIN cache
                \/ /\ cache[t].error # None
                   /\ cache[t].retry = TRUE
                   /\ \/ cache[t].created = NoneT
                      \/ cutoff = NoneT
                      \/ cache[t].created[1] < cutoff[1]

\* an id without a record next to a deferred id that is due under one cutoff
\* and not under another
C17_Witness ==
    \E t, u \in LedgerIds :
        /\ t \notin DOMAIN cache
        /\ should_try(cache, t, Some(1))
        /\ u \in DOMAIN cache
        /\ cache[u].created = Some(1)
        /\ ~should_try(cache, u, Some(1))
        /\ should_try(cache, u, Some(MaxTime))

\* C18: recordError (Cache.error) stores the result of one evaluation of the
\* retry decider, the first, as retryEligible, with createdAt = null; right
\* afterwards isDue for the item equals that result under every cutoff; the
\* default decider says yes; a record (error "x", retryEligible true,
\* createdAt None) is due with cutoff None.
C18_ErrorStoresTheDecision ==
    /\ \A t \in DOMAIN lastOp :
        lastOp[t].op \in {"error_retry", "error_final"} =>
            /\ cache[t].error # None
            /\ cache[t].created = NoneT
            /\ cache[t].retry = (lastOp[t].op = "error_retry")
            /\ \A cutoff \in Cutoffs : should_try(cache, t, cutoff) = cache[t].retry
    /\ \A c \in {error(EmptyCache, NoneT, 1, "x", DefaultRetryCallback)} :
            c[1] = CacheEntry(NoneT, "x", TRUE, NoneT) /\ should_try(c, 1, NoneT)

\* a record (error "x", retryEligible true, createdAt None), due with no
\* cutoff, next to an error record the decider refused, not due
C18_Witness ==
    \E t, u \in DOMAIN lastOp :
        /\ lastOp[t].op = "error_retry"
        /\ cache[t].error = "x" /\ cache[t].retry /\ cache[t].created = NoneT
        /\ should_try(cache, t, NoneT)
        /\ lastOp[u].op = "error_final"
        /\ ~should_try(cache, u, NoneT)

\* C19: for every ledger state and cutoff, dueItems (Cache.get_cached) yields
\* the pair (groupKey, itemId) of exactly the existing records for which isDue
\* is true: no terminal-success, permanent-failure or not-yet-due record.
C19_DueItemsAreTheDueRecords ==
    \A cutoff \in Cutoffs :
        /\ get_cached(cache, cutoff) =
                {<<cache[t].group_id, t>> :
                    t \in {u \in DOMAIN cache : should_try(cache, u, cutoff)}}
        /\ \A pair \in get_cached(cache, cutoff) :
            /\ pair[2] \in DOMAIN cache
            /\ cache[pair[2]].error # None
            /\ cache[pair[2]].retry
            /\ (cutoff # NoneT /\ cache[pair[2]].created # NoneT)
                    => cache[pair[2]].created[1] < cutoff[1]

\* a ledger with a due record and a permanent-failure record: only the first
\* is yielded
C19_Witness ==
    \E t, u \in DOMAIN cache :
        /\ cache[t].error # None /\ ~cache[t].retry
        /\ get_cached(cache, NoneT) = {<<cache[u].group_id, u>>}

Found == {"absent", "unreadable", "corrupt", "snapshot"}

\* the snapshots an earlier run can have left behind
Snapshots ==
    {EmptyCache,
     complete(EmptyCache, NoneT, 1),
     retry(error(EmptyCache, Some(1), 1, "x", DefaultRetryCallback), Some(1),
           MaxLedgerIds, Some(1), "x")}

\* Cache.__init__: without a path it returns before self._cache is assigned;
\* with one, every failure of open() or pickle.load() gives an empty dict
__init__(path, found, snapshot) ==
    IF path = "None" THEN [_cache |-> "unset", cache |-> EmptyCache]
    ELSE IF found = "snapshot" THEN [_cache |-> "set", cache |-> snapshot]
    ELSE [_cache |-> "set", cache |-> EmptyCache]

\* main.py line 127: config's cache entry is optional; no entry, no path
LoadInit ==
    /\ \E path \in {"None", "cache"}, found \in Found :
        /\ path = "None" => found = "absent"
        /\ store = [path |-> path, found |-> found, _cache |-> "new",
                    raised |-> "none"]
        /\ saved \in (IF found = "snapshot" THEN Snapshots ELSE {EmptyCache})
    /\ cache = EmptyCache
    /\ lastOp = [t \in LedgerIds |-> Touched("none", NoneT)]
    /\ IdleConfig /\ IdleBatch /\ IdleFilter /\ IdleEngine

Load ==
    /\ store._cache = "new"
    /\ LET c == __init__(store.path, store.found, saved)
       IN  /\ store' = [store EXCEPT !._cache = c._cache]
           /\ cache' = c.cache
    /\ UNCHANGED <<saved, lastOp, configVars, batchVars, last, engineVars>>

\* any operation of a Cache that has no _cache attribute: self._cache raises
\* AttributeError before anything is read or written
LoadRaise ==
    /\ store._cache = "unset"
    /\ store' = [store EXCEPT !.raised = "AttributeError"]
    /\ UNCHANGED <<ledgerVars, configVars, batchVars, last, engineVars>>

\* an operation on the ledger as it was constructed
LoadOperate ==
    /\ store._cache = "set"
    /\ \A t \in LedgerIds : lastOp[t].op = "none"
    /\ LedgerNext

LoadNext ==
    \/ Load
    \/ LoadRaise
    \/ LoadOperate

LoadSpec == LoadInit /\ [][LoadNext]_vars

\* C21 (as claimed): once constructed over a store that is absent, unreadable
\* or corrupt, the ledger is an empty map on which every item is due, and no
\* operation on it fails for want of the map.
C21_FreshStartWithoutAStore ==
    (store._cache # "new" /\ store.found # "snapshot") =>
        /\ store._cache = "set"
        /\ store.raised = "none"
        /\ (\A t \in LedgerIds : lastOp[t].op = "none") =>
            /\ cache = EmptyCache
            /\ \A t \in LedgerIds, cutoff \in Cutoffs : should_try(cache, t, cutoff)

\* a ledger constructed without a path, whose first operation raised
C21_Witness ==
    /\ store.path = "None"
    /\ store._cache = "unset"
    /\ store.raised = "AttributeError"

WellFormed(entry) ==
    /\ entry.created # NoneT => (entry.error # None /\ entry.retry)
    /\ entry.error = None => (~entry.retry /\ entry.created = NoneT)

\* C34: every record of the ledger, in memory and in the snapshot, is
\* well-formed: a record with a timestamp has an error and is retry-eligible,
\* and a record without error is not retry-eligible and has no timestamp
C34_EveryRecordIsWellFormed ==
    /\ \A t \in DOMAIN cache : WellFormed(cache[t])
    /\ \A t \in DOMAIN saved : WellFormed(saved[t])

\* the ledger holds a completion and a
\* deferred record with its timestamp, both in memory and in the snapshot
C34_Witness ==
    /\ \E t \in DOMAIN cache :
        /\ cache[t] = CacheEntry(Some(1), None, FALSE, NoneT)
        /\ lastOp[t].op = "complete"
    /\ \E t \in DOMAIN cache :
        /\ cache[t].created # NoneT /\ cache[t].retry /\ cache[t].error = "x"
        /\ lastOp[t].op = "retry"
    /\ saved = cache

\* C23 (as claimed): with a batch size B configured, the prepared releases
\* never number more than B and the preparation loop pulls no candidate once
\* B releases are prepared; with no batch size the loop is left only when the
\* candidate stream is exhausted (or the run is aborted), never by the break.
C23_BatchSizeBoundsThePreparedReleases ==
    /\ batch # NoneT =>
        /\ Len(transcode_groups) <= batch[1]
        /\ pc = "prepare" => Len(transcode_groups) < batch[1]
    /\ (batch = NoneT /\ pc = "review") => last.kind = "none"

\* a batch size of zero: the loop goes on after a release was prepared
C23_Witness ==
    /\ batch = Some(0)
    /\ pc = "prepare"
    /\ Len(transcode_groups) > 0

\* C24: a candidate whose id is not due under the run's cutoff is skipped
\* before _build_transcode_group is called (outcome "ignored": no fetch, no
\* filter): no release is prepared for it, the dedup set and the ledger, in
\* memory and on disk, are left as they were, and the loop goes on; a due
\* candidate is never skipped this way.
C24_NotDueIsSkippedUntouched ==
    [][(pc = "prepare" /\ last'.kind = "candidate") =>
        IF should_try(cache, last'.torrent, created_cutoff)
        THEN last'.outcome # "ignored"
        ELSE /\ last'.outcome = "ignored"
             /\ last'.op = "none"
             /\ pc' = "prepare"
             /\ UNCHANGED <<cache, saved, lastOp, processing, transcode_groups, fs>>]_vars

\* a candidate deferred earlier in the run comes up again before the cutoff
\* has passed its creation time, and is skipped
C24_Witness ==
    /\ last.kind = "candidate"
    /\ last.outcome = "ignored"
    /\ last.torrent \in DOMAIN cache
    /\ cache[last.torrent].retry
    /\ created_cutoff # NoneT
    /\ ~should_try(cache, last.torrent, created_cutoff)

\* C25 (as claimed): since the construction of a Transcode is rejected when
\* one of its output directories exists, no release is ever executed into a
\* directory that exists already: an existing directory is never overwritten.
C25_NoExistingDirectoryIsWritten ==
    hist.kind = "executed" => ~hist.existed

\* a release was executed into the directories an earlier release of the run
\* had filled and published
C25_Witness ==
    /\ hist.kind = "executed"
    /\ hist.existed
    /\ ei = 2
    /\ cache[transcode_groups[1].torrent].error = None

\* C36: within one run no two prepared releases have an output directory in
\* common, so that executing or cancelling one release never touches the
\* output tree of another
C36_PreparedReleasesShareNoDirectory ==
    \A i, j \in 1 .. Len(transcode_groups) :
        i # j => OutputDirs(transcode_groups[i]) \cap OutputDirs(transcode_groups[j]) = {}

\* two releases of different editions of one group, with distinct dedup
\* keys, were prepared with the same directory for one of their targets, and
\* the second was executed into the tree the first had left
C36_Witness ==
    /\ Len(transcode_groups) = 2
    /\ transcode_groups[1].grouping # transcode_groups[2].grouping
    /\ torrent_unique_id(Some(transcode_groups[1].group), catalog[transcode_groups[1].torrent])
         # torrent_unique_id(Some(transcode_groups[2].group), catalog[transcode_groups[2].torrent])
    /\ OutputDirs(transcode_groups[1]) \cap OutputDirs(transcode_groups[2]) # {}
    /\ ei = 2
    /\ hist.kind = "executed"
    /\ hist.existed

\* one iteration of the execution loop that did not end the run: it handled
\* the next prepared release in preparation order, left the list of prepared
\* releases as it was, and wrote one record for the item of that release and
\* for no other item: a completion when the release was published, an error
\* when a step failed
ExecutedNext ==
    LET g == transcode_groups[ei + 1]
    IN  /\ ei' = ei + 1
        /\ transcode_groups' = transcode_groups
        /\ hist'.kind = "executed"
        /\ DOMAIN cache' = DOMAIN cache \cup {g.torrent}
        /\ \A t \in DOMAIN cache : t # g.torrent => cache'[t] = cache[t]
        /\ cache'[g.torrent] = hist'.written
        /\ cache'[g.torrent] \in
                {CacheEntry(Some(g.group), None, FALSE, NoneT)}
                \cup {CacheEntry(Some(g.group), "failed", r, NoneT) : r \in BOOLEAN}
        /\ cache'[g.torrent].error = None
            <=> (hist'.execute = "ok" /\ hist'.steps = PublishSteps(g))
        /\ saved' = cache'

\* C37: in a run that is not aborted, every prepared release the operator did
\* not drop is executed exactly once, in preparation order and one at a time,
\* and one ledger record, completion or error, is written for it during the
\* execution phase
C37_EveryKeptReleaseIsExecutedOnce ==
    /\ [](pc = "done" => ei = Len(transcode_groups))
    /\ [](pc = "execute" => ei < Len(transcode_groups))
    /\ [][(pc = "execute" /\ pc' # "aborted") => ExecutedNext]_vars
    /\ [][pc # "execute" => (ei' = ei /\ hist' = hist /\ fs' = fs)]_vars

\* a run of two releases ended: the first failed and has its error record, the
\* second was published and has its completion
C37_Witness ==
    /\ pc = "done"
    /\ ei = 2
    /\ Len(transcode_groups) = 2
    /\ transcode_groups[1].torrent # transcode_groups[2].torrent
    /\ cache[transcode_groups[1].torrent].error = "failed"
    /\ cache[transcode_groups[2].torrent].error = None
    /\ hist.kind = "executed"
    /\ hist.written = cache[transcode_groups[2].torrent]

\* C38: a prepared release that the operator drops at the spectrogram review
\* has a permanent record (an error that is not retry-eligible) and is not
\* among the releases that the run goes on to execute and publish
C38_DroppedReleaseIsNotExecuted ==
    \A t \in DOMAIN cache :
        cache[t].error = "Rejected spectrograms" =>
            /\ ~cache[t].retry
            /\ \A cutoff \in Cutoffs : ~should_try(cache, t, cutoff)
            /\ \A i \in 1 .. Len(transcode_groups) : transcode_groups[i].torrent # t

\* in a run over release URLs one item was prepared twice; the operator
\* dropped the first of the two releases, the review is over and the
\* execution loop is about to execute the second
C38_Witness ==
    /\ release_urls
    /\ pc = "execute"
    /\ ei = 0
    /\ Len(transcode_groups) = 1
    /\ lastOp[transcode_groups[1].torrent].op = "bad"
    /\ cache[transcode_groups[1].torrent].error = "Rejected spectrograms"

(***************************************************************************)
(* ConstructSpec: Transcode.__init__ step by step, over the directories,   *)
(* tracks and additional files it finds (src/src/transcode.py).            *)
(***************************************************************************)
PATH_MAX_LENGTH == 180

\* the escapes a name can hold: "named" is an escape such as &amp;, made of
\* lower-case letters and digits; "other" is a numeric escape such as &#39;
\* or a named one with a capital such as &Eacute;
Escapes == {"named", "other"}

\* HTML_ENCODE.search: the pattern &[a-z0-9]+; finds the "named" escapes only
HTML_ENCODE_search(html) == "named" \in html

\* a slip that would only warn about a path that breaks a rule
_check_valid_path_lax(path) == "ok"

\* _check_valid_path, strict: the path of a file relative to the parent of its
\* directory, given by its length and by the escapes it holds
_check_valid_path(path) ==
    IF path.len > PATH_MAX_LENGTH THEN "NamingException"
    ELSE IF HTML_ENCODE_search(path.html) THEN "NamingException"
    ELSE "ok"

\* str(file.relative_to(dir.parent)): the name of the directory, a
\* separator and the path of the file below the directory
RelativePath(dir, len, html) == [len |-> dir.len + 1 + len, html |-> dir.html \cup html]

\* the source directory and the output directory of a format: names of 40
\* and 50 characters; the output directories of a release differ only in
\* the format label
InputDir == [len |-> 40, html |-> {}]
OutputDir(html) == [len |-> 50, html |-> html]

\* a source track: its resample decision, the length of its path below the
\* source directory (suffix .flac included) and the escapes in that path
SimpleTrack(resample) == [resample |-> resample, len |-> 30, html |-> {}]

TrackFiles ==
    {SimpleTrack(r) : r \in Resamples}
    \cup [resample : {"KHZ_44_1"}, len : {129, 130, 131},
          html : {{}, {"named"}, {"other"}}]

\* an additional file: the length of its path below the source directory
\* and the escapes in it
ExtraFiles == [len : {20, 140}, html : {{}, {"named"}, {"other"}}]

\* the file name of an additional file once the operator has shortened it
RenamedFile == [len |-> 10, html |-> {}]

\* _build_transcoded_tracks: the output path of a track in one format, with
\* the suffix of the format
TranscodedPath(dir, track, f) ==
    RelativePath(dir, track.len - Len(".flac") + Len(FormatTable[f].ext), track.html)

\* _get_track: "ok", or the exception that validating the track, deciding
\* its resampling or checking its paths raises
_get_track(dir, formats, track) ==
    IF track.resample = "TranscodeException" THEN "TranscodeException"
    ELSE IF track.resample = "ValueError" THEN "ValueError"
    ELSE IF _check_valid_path(RelativePath(InputDir, track.len, track.html)) # "ok"
    THEN "NamingException"
    ELSE IF \E f \in formats : _check_valid_path(TranscodedPath(dir, track, f)) # "ok"
    THEN "NamingException"
    ELSE "ok"

\* the paths planned for the tracks: one per track and target format
TrackPaths(dir, formats, files) ==
    {TranscodedPath(dir, files[i], f) : i \in DOMAIN files, f \in formats}

\* _get_additional_files for one file: the path it is given in every output
\* tree, or the NamingException left when the renamer has no other name
AdditionalPath(dir, file, file_renamer) ==
    IF _check_valid_path(RelativePath(dir, file.len, file.html)) = "ok"
    THEN [raised |-> "none", path |-> RelativePath(dir, file.len, file.html)]
    ELSE IF file_renamer = "None"
    THEN [raised |-> "NamingException", path |-> RelativePath(dir, file.len, file.html)]
    ELSE IF _check_valid_path(RelativePath(dir, RenamedFile.len, RenamedFile.html)) = "ok"
    THEN [raised |-> "none",
          path |-> RelativePath(dir, RenamedFile.len, RenamedFile.html)]
    ELSE [raised |-> "NamingException",
          path |-> RelativePath(dir, RenamedFile.len, RenamedFile.html)]

\* what Transcode.__init__ is given and finds on disk
ConstructInput(input_is_dir, formats, existing, html, files, extras, file_renamer) ==
    [input_is_dir |-> input_is_dir, formats |-> formats, existing |-> existing,
     dir |-> OutputDir(html), files |-> files, extras |-> extras,
     file_renamer |-> file_renamer, tracks |-> {}, global_resample |-> None,
     additional_files |-> {}]

TargetSets == (SUBSET {"FLAC_16", "MP3_320"}) \ {{}}

\* the constructions: releases that differ in their tracks, releases that
\* differ in their additional files, and the cases the first checks and the
\* track validation reject
ConstructInputs ==
    {ConstructInput(TRUE, F, {}, {}, files, <<>>, "None") :
        F \in TargetSets,
        files \in UNION {[1 .. n -> TrackFiles] : n \in 1 .. MaxTracks}}
    \cup
    {ConstructInput(TRUE, F, {}, h, <<SimpleTrack("KHZ_44_1")>>, extras, r) :
        F \in TargetSets, h \in {{}, {"named"}, {"other"}},
        extras \in UNION {[1 .. n -> ExtraFiles] : n \in 0 .. MaxExtras},
        r \in {"None", "renamed"}}
    \cup
    {ConstructInput(d, F, E, {}, files, <<>>, "None") :
        d \in BOOLEAN, F \in TargetSets, E \in SUBSET {"FLAC_16", "MP3_320"},
        files \in {<<>>, <<SimpleTrack("KEEP")>>, <<SimpleTrack("ValueError")>>,
                   <<SimpleTrack("KEEP"), SimpleTrack("TranscodeException")>>}}

ConstructInit ==
    /\ cache = EmptyCache
    /\ saved = EmptyCache
    /\ lastOp = <<>>
    /\ IdleConfig /\ IdleBatch /\ IdleFilter /\ IdleStore
    /\ transcode \in {c \in ConstructInputs : c.existing \subseteq c.formats}
    /\ tstate = <<>>
    /\ dirs = <<>>
    /\ xpc = "new"
    /\ xhist = [failure |-> "none", cancelled |-> FALSE, late |-> FALSE]

ConstructFrame ==
    UNCHANGED <<ledgerVars, configVars, batchVars, last, tstate, dirs, store>>

Raise(exception) ==
    /\ xpc' = "raised"
    /\ xhist' = [xhist EXCEPT !.failure = exception]
    /\ UNCHANGED transcode

\* lines 172-176: an existing output directory, an absent source directory
CheckDirectories ==
    /\ xpc = "new"
    /\ IF transcode.existing # {} THEN Raise("TranscodeException")
       ELSE IF ~transcode.input_is_dir THEN Raise("ValueError")
       ELSE xpc' = "checked" /\ UNCHANGED <<transcode, xhist>>
    /\ ConstructFrame

\* line 183: list(pool.map(...)) gives the tracks in order, or raises what
\* the first track that failed raised
PlanTracks ==
    /\ xpc = "checked"
    /\ LET files == transcode.files
           result == [i \in DOMAIN files |->
                        _get_track(transcode.dir, transcode.formats, files[i])]
           failing == {i \in DOMAIN files : result[i] # "ok"}
       IN  IF failing # {}
           THEN Raise(result[CHOOSE i \in failing : \A j \in failing : i <= j])
           ELSE /\ transcode' = [transcode EXCEPT !.tracks =
                        TrackPaths(transcode.dir, transcode.formats, files)]
                /\ xpc' = "tracks"
                /\ UNCHANGED xhist
    /\ ConstructFrame

\* line 184: _get_global_resample reads self.tracks[0]
PlanGlobalResample ==
    /\ xpc = "tracks"
    /\ IF Len(transcode.files) = 0 THEN Raise("IndexError")
       ELSE /\ transcode' = [transcode EXCEPT !.global_resample =
                    _get_global_resample([i \in DOMAIN transcode.files |->
                                            transcode.files[i].resample])]
            /\ xpc' = "resample"
            /\ UNCHANGED xhist
    /\ ConstructFrame

\* line 186: list(self._get_additional_files())
PlanAdditionalFiles ==
    /\ xpc = "resample"
    /\ LET extras == transcode.extras
           result == [i \in DOMAIN extras |->
                        AdditionalPath(transcode.dir, extras[i], transcode.file_renamer)]
       IN  IF \E i \in DOMAIN extras : result[i].raised # "none"
           THEN Raise("NamingException")
           ELSE /\ transcode' = [transcode EXCEPT !.additional_files =
                        {result[i].path : i \in DOMAIN extras}]
                /\ xpc' = "files"
                /\ UNCHANGED xhist
    /\ ConstructFrame

\* lines 188-189
CheckContradiction ==
    /\ xpc = "files"
    /\ IF Contradictory(transcode.global_resample, transcode.formats)
       THEN Raise("TranscodeException")
       ELSE xpc' = "constructed" /\ UNCHANGED <<transcode, xhist>>
    /\ ConstructFrame

ConstructNext ==
    \/ CheckDirectories
    \/ PlanTracks
    \/ PlanGlobalResample
    \/ PlanAdditionalFiles
    \/ CheckContradiction

ConstructSpec == ConstructInit /\ [][ConstructNext]_vars

\* C26: no constructed Transcode has global_resample KEEP together with the
\* 16-bit lossless target, so a track that keeps its sampling is copied into
\* a 16-bit lossless output only in a release whose tracks disagree
\* (global_resample None), next to a track that is resampled.
C26_NoLosslessTargetWithoutResampling ==
    xpc = "constructed" =>
        /\ ~(transcode.global_resample = "KEEP" /\ "FLAC_16" \in transcode.formats)
        /\ \A i \in DOMAIN transcode.files :
            (transcode.files[i].resample = "KEEP" /\ "FLAC_16" \in transcode.formats) =>
                /\ transcode.global_resample = None
                /\ \E j \in DOMAIN transcode.files : transcode.files[j].resample # "KEEP"

\* a constructed release with the 16-bit lossless target, one track that
\* keeps its sampling and one that is resampled
C26_Witness ==
    /\ xpc = "constructed"
    /\ "FLAC_16" \in transcode.formats
    /\ transcode.global_resample = None
    /\ \E i, j \in DOMAIN transcode.files :
        /\ transcode.files[i].resample = "KEEP"
        /\ transcode.files[j].resample = "KHZ_48"

\* the paths a constructed Transcode plans to write
PlannedPaths == transcode.tracks \cup transcode.additional_files

\* C28 (as claimed): in every constructed Transcode each planned output path,
\* of a converted track or of an additional file, taken relative to the
\* parent of its output directory, is at most 180 characters long and holds
\* no HTML escape at all.
C28_PlannedPathsAreShortAndUnescaped ==
    xpc = "constructed" =>
        \A path \in PlannedPaths :
            path.len <= PATH_MAX_LENGTH /\ path.html = {}

\* a constructed Transcode that plans a path with a numeric escape in it
C28_Witness ==
    /\ xpc = "constructed"
    /\ \E path \in PlannedPaths : "other" \in path.html

\* C27: when the fetch of a candidate's metadata raises TrackerException
\* (outcome "invalid"), an error record that is not retry-eligible is
\* written for the item and saved, no release is prepared, the dedup set and
\* every other ledger record are unchanged, and the loop goes on with the
\* next candidate.
C27_FetchFailureIsRecordedAsFinal ==
    [][(pc = "prepare" /\ last'.kind = "candidate" /\ last'.outcome = "invalid") =>
        /\ pc' = "prepare"
        /\ transcode_groups' = transcode_groups
        /\ processing' = processing
        /\ last'.torrent \in DOMAIN cache'
        /\ cache'[last'.torrent].error # None
        /\ cache'[last'.torrent].retry = FALSE
        /\ \A cutoff \in Cutoffs : ~should_try(cache', last'.torrent, cutoff)
        /\ DOMAIN cache' = DOMAIN cache \cup {last'.torrent}
        /\ \A t \in DOMAIN cache : t # last'.torrent => cache'[t] = cache[t]
        /\ saved' = cache']_vars

\* the fetch of the second candidate failed, after the first candidate had
\* been given a ledger record of its own, and the loop is still running
C27_Witness ==
    /\ pc = "prepare"
    /\ last.kind = "candidate"
    /\ last.outcome = "invalid"
    /\ ~cache[last.torrent].retry
    /\ \E t \in DOMAIN cache : t # last.torrent

(***************************************************************************)
(* PrepareSpec: the loop of _prepare_transcode, which asks the operator    *)
(* for shorter names after a naming conflict (src/src/modes.py).           *)
(***************************************************************************)
MaxOverrides == 2     \* path computations after the first, at most

\* the release being prepared
PreparedTorrent == [group |-> 1, id |-> 1]

\* the lengths of the names the operator types at the prompts
OverrideLengths == {10, 115}

\* music.build_output_dir with overrides, as the length of the name it
\* builds: artists, title, remaster title and year or year alone, media
\* and format. The remaster override is used only when the release has a
\* remaster title.
build_output_dir_len(title, remaster, title_override, remaster_override) ==
    LET basename == 10 + 3 + (IF title_override = NoneT THEN title
                              ELSE title_override[1])
        release == IF remaster > 0
                   THEN 2 + (IF remaster_override = NoneT THEN remaster
                             ELSE remaster_override[1]) + 3 + 4 + 1
                   ELSE 2 + 4 + 1
    IN  basename + release + 15

\* Transcode(input_dir, spec_dir, outputs) for a release of one track whose
\* path below the source directory has 30 characters: the NamingException
\* of a path that is too long, or "ok"
ConstructNamed(dir_len) ==
    _check_valid_path(RelativePath([len |-> dir_len, html |-> {}], 30, {}))

\* a slip that would compute the paths again whatever the operator typed
Overridden_always(title_override, remaster_override) == TRUE

\* lines 48-54: an override was supplied, the paths are computed again
Overridden(title_override, remaster_override) ==
    title_override # NoneT \/ remaster_override # NoneT

PrepareInit ==
    /\ cache = EmptyCache
    /\ saved = EmptyCache
    /\ lastOp = [t \in {PreparedTorrent.id} |-> Touched("none", NoneT)]
    /\ IdleConfig /\ IdleBatch /\ IdleFilter /\ IdleStore
    \* the lengths of the group name and of the remaster title (none: 0)
    /\ \E title \in {20, 120}, remaster \in {0, 10, 110} :
        transcode = [title |-> title, remaster |-> remaster,
                     title_override |-> NoneT, remaster_override |-> NoneT,
                     confirm |-> FALSE, iterations |-> 0, supplied |-> 0,
                     declined |-> FALSE]
    /\ tstate = <<>>
    /\ dirs = <<>>
    /\ xpc = "loop"
    /\ xhist = [failure |-> "none", cancelled |-> FALSE, late |-> FALSE]

PrepareFrame == UNCHANGED <<configVars, batchVars, last, tstate, dirs, store>>

\* lines 36-44: the names are computed, confirmed by the operator once a
\* conflict has occurred, and the Transcode is constructed
ComputeOutputs ==
    /\ xpc = "loop"
    /\ \E answer \in Answers :
        /\ ~transcode.confirm => answer = "y"
        /\ transcode' = [transcode EXCEPT !.iterations = @ + 1]
        /\ IF answer # "y"
           THEN xpc' = "raised" /\ xhist' = [xhist EXCEPT !.failure = "ValueError"]
           ELSE IF ConstructNamed(build_output_dir_len(
                        transcode.title, transcode.remaster,
                        transcode.title_override, transcode.remaster_override)) = "ok"
           THEN xpc' = "returned" /\ UNCHANGED xhist
           ELSE xpc' = "conflict" /\ UNCHANGED xhist
    /\ UNCHANGED ledgerVars
    /\ PrepareFrame

\* lines 45-54: the handler of NamingException asks for a shorter base
\* name, and for a shorter release name when none was given
AskOverride ==
    /\ xpc = "conflict"
    /\ \E title \in {NoneT} \cup {Some(n) : n \in OverrideLengths},
          release \in {NoneT} \cup {Some(n) : n \in OverrideLengths} :
        /\ title # NoneT => release = transcode.remaster_override
        /\ IF Overridden(title, release)
           THEN /\ transcode.iterations <= MaxOverrides
                /\ transcode' = [transcode EXCEPT
                        !.confirm = TRUE,
                        !.title_override = title,
                        !.remaster_override = release,
                        !.supplied = IF title # NoneT \/ release # NoneT
                                     THEN @ + 1 ELSE @]
                /\ xpc' = "loop"
                /\ UNCHANGED xhist
           ELSE /\ transcode' = [transcode EXCEPT
                        !.confirm = TRUE,
                        !.title_override = title,
                        !.remaster_override = release,
                        !.declined = TRUE]
                /\ xpc' = "raised"
                /\ xhist' = [xhist EXCEPT !.failure = "ValueError"]
    /\ UNCHANGED ledgerVars
    /\ PrepareFrame

\* _build_transcode_group lines 123-127: the exception of _prepare_transcode
\* is recorded after the operator was asked whether to retry, and raised
\* again; an interrupt at that prompt leaves before anything is recorded
PrepareFailed ==
    /\ xpc = "raised"
    /\ \E answer \in Prompt :
        /\ cache' = _error_check_retry(cache, PreparedTorrent, "failed", answer)
        /\ IF answer \in Answers
           THEN /\ saved' = _save(cache')
                /\ lastOp' = Touch(lastOp, PreparedTorrent.id, ErrorOp(answer), NoneT)
                /\ xpc' = "failed"
           ELSE /\ xpc' = "aborted"
                /\ UNCHANGED <<saved, lastOp>>
    /\ UNCHANGED <<transcode, xhist>>
    /\ PrepareFrame

PrepareNext ==
    \/ ComputeOutputs
    \/ AskOverride
    \/ PrepareFailed

PrepareSpec == PrepareInit /\ [][PrepareNext]_vars

\* C29: the paths are computed again only after a naming conflict for which
\* the operator supplied a title or a release-name override, so the number
\* of computations is one more than the number of overrides supplied; once
\* the operator supplies neither, no further computation takes place, no
\* Transcode is returned and, unless the operator interrupts the retry
\* prompt, an error record is written for the release.
C29_EachRecomputationConsumesAnOverride ==
    /\ transcode.iterations = transcode.supplied + (IF xpc = "loop" THEN 0 ELSE 1)
    /\ xpc = "loop" =>
        \/ transcode.iterations = 0
        \/ transcode.title_override # NoneT
        \/ transcode.remaster_override # NoneT
    /\ transcode.declined => xpc \in {"raised", "failed", "aborted"}
    /\ xpc = "failed" =>
        /\ PreparedTorrent.id \in DOMAIN cache
        /\ cache[PreparedTorrent.id].error # None
        /\ saved = cache
    /\ xpc = "returned" => cache = EmptyCache

\* the operator gave one name that did not help, then nothing: two
\* computations, one override, an error record and no Transcode
C29_Witness ==
    /\ xpc = "failed"
    /\ transcode.declined
    /\ transcode.iterations = 2
    /\ transcode.supplied = 1
    /\ cache[PreparedTorrent.id].error # None

(***************************************************************************)
(* LogsSpec: line 182 of Transcode.__init__, _check_logs over the rip logs *)
(* of the source directory (src/src/transcode.py, src/src/log_checker.py). *)
(***************************************************************************)
MaxLogs == 2       \* log files of the source directory, at most

\* what eac_verify or xld_verify makes of a log: the file is not of the
\* format (WrongFormatException), or it is, with a version older than the
\* minimum or not, and no signature, a signature that differs from the
\* checksum of the text, or the one that matches
NotOfTheFormat == [format |-> FALSE, old |-> FALSE, signature |-> "None"]
Verified ==
    {NotOfTheFormat} \cup [format : {TRUE}, old : BOOLEAN, signature : {"None", "bad", "good"}]

\* a log file of the source directory: whether its text names AUDIOCHECKER,
\* and what the two verifiers make of it (xld is looked at only when the file
\* is no EAC log)
LogFiles ==
    {log \in [audiochecker : BOOLEAN, eac : Verified, xld : Verified] :
        log.eac.format => log.xld = NotOfTheFormat}

\* log_checker.try_verify: "True", "False" or the exception raised
try_verify(verified) ==
    IF ~verified.format THEN "WrongFormatException"
    ELSE IF verified.old THEN "LogException"
    ELSE IF verified.signature = "None" THEN "False"
    ELSE IF verified.signature # "good" THEN "LogException"
    ELSE "True"

\* log_checker.check_log: the exception of the second try_verify is raised
\* from within the handler of the first and leaves check_log
check_log(log) ==
    IF log.audiochecker THEN "False"
    ELSE IF try_verify(log.eac) = "WrongFormatException" THEN try_verify(log.xld)
    ELSE try_verify(log.eac)

\* Transcode.__init__ has passed the checks of lines 172-176 and calls
\* _check_logs on a source directory with any logs
LogsInit ==
    /\ cache = EmptyCache
    /\ saved = EmptyCache
    /\ lastOp = <<>>
    /\ IdleConfig /\ IdleBatch /\ IdleFilter /\ IdleStore
    /\ \E n \in 0 .. MaxLogs : \E logs \in [1 .. n -> LogFiles] :
        transcode = [logs |-> logs, checked |-> 0, valid_logs |-> 0]
    /\ tstate = <<>>
    /\ dirs = <<>>
    /\ xpc = "checked"
    /\ xhist = [failure |-> "none", cancelled |-> FALSE, late |-> FALSE]

\* _check_logs lines 157-159: the next log is checked; an exception of
\* check_log leaves _check_logs and Transcode.__init__
CheckLog ==
    /\ xpc = "checked"
    /\ transcode.checked < Len(transcode.logs)
    /\ LET log == transcode.logs[transcode.checked + 1]
           r == check_log(log)
       IN  IF r \in {"True", "False"}
           THEN /\ transcode' =
                    [transcode EXCEPT
                        !.checked = @ + 1,
                        !.valid_logs = IF r = "True" THEN @ + 1 ELSE @]
                /\ UNCHANGED <<xpc, xhist>>
           ELSE /\ xpc' = "raised"
                /\ xhist' = [xhist EXCEPT !.failure = r]
                /\ UNCHANGED transcode
    /\ ConstructFrame

\* _check_logs line 161 and Transcode.__init__ line 182: self.valid_logs is
\* set and the construction goes on with the tracks
LogsChecked ==
    /\ xpc = "checked"
    /\ transcode.checked = Len(transcode.logs)
    /\ xpc' = "logs"
    /\ UNCHANGED <<transcode, xhist>>
    /\ ConstructFrame

LogsNext ==
    \/ CheckLog
    \/ LogsChecked

LogsSpec == LogsInit /\ [][LogsNext]_vars

\* C33: the rip-log verifier never makes the construction fail: a malformed,
\* unsigned or checksum-mismatching log is counted as unverified and discovery
\* goes on, and the count of verified logs is the number of logs whose
\* verification returned true
C33_LogsNeverFailTheConstruction ==
    /\ xpc # "raised"
    /\ xpc = "logs" =>
        transcode.valid_logs =
            Cardinality({i \in DOMAIN transcode.logs :
                            check_log(transcode.logs[i]) = "True"})

\* the construction was left with the LogException of a log whose signature
\* differs from its checksum, after a log with a good signature was counted
C33_Witness ==
    /\ xpc = "raised"
    /\ xhist.failure = "LogException"
    /\ transcode.checked = 1
    /\ transcode.valid_logs = 1
    /\ LET log == transcode.logs[2]
       IN  /\ ~log.audiochecker
           /\ log.eac = [format |-> TRUE, old |-> FALSE, signature |-> "bad"]

(***************************************************************************)
(* SaveSpec: the ledger operations over a medium whose writes can fail     *)
(* (src/src/cache.py, _save and its callers).                              *)
(***************************************************************************)
\* a slip that would swallow the failure of the write
write_bytes_quiet(medium, data, ok) ==
    [snapshot |-> IF ok THEN data ELSE medium, raised |-> "none"]

\* self._path.write_bytes(pickle.dumps(self._cache)), line 26: the snapshot on
\* the medium afterwards, and the OSError of a write that failed
write_bytes(medium, data, ok) ==
    [snapshot |-> IF ok THEN data ELSE medium,
     raised |-> IF ok THEN "none" ELSE "OSError"]

\* the items recorded: two ids of one group
SaveIds == {1, 2}

\* the dicts the four record operations can leave behind, lines 28-48; the
\* group and the message have no part in the write
Recorded(c) ==
    UNION {{complete(c, Some(1), t), bad(c, Some(1), t, "x")}
            \cup {error(c, Some(1), t, "x", cb) : cb \in RetryCallbacks}
            \cup {retry(c, Some(1), t, Some(T), "x") : T \in Times} :
           t \in SaveIds}

SaveInit ==
    /\ cache = EmptyCache
    /\ saved = EmptyCache
    /\ lastOp = <<>>
    /\ IdleConfig /\ IdleBatch /\ IdleFilter /\ IdleEngine /\ IdleStore

\* complete, bad, error or retry: the entry is assigned, then _save writes;
\* what _save raises is what the operation raises
SaveRecord ==
    /\ \E c \in Recorded(cache), ok \in BOOLEAN :
        LET w == write_bytes(saved, _save(c), ok)
        IN  /\ cache' = c
            /\ saved' = w.snapshot
            /\ store' = [store EXCEPT !.raised = w.raised]
    /\ hist' = [kind |-> "none"]
    /\ UNCHANGED <<lastOp, configVars, ci, processing, transcode_groups, pc, ei, fs,
                   last, engineVars>>

\* clear, lines 54-61: the KeyError of pop is raised before _save is reached.
\* The history keeps the call and the ledger it was made on.
SaveClear ==
    /\ \E id \in {NoneT} \cup {Some(t) : t \in SaveIds}, errors, ok \in BOOLEAN :
        LET r == clear(cache, id, errors)
            w == write_bytes(saved, _save(r.cache), ok)
        IN  /\ cache' = r.cache
            /\ saved' = IF r.raised THEN saved ELSE w.snapshot
            /\ store' = [store EXCEPT !.raised = IF r.raised THEN "KeyError"
                                                 ELSE w.raised]
            /\ hist' = [kind |-> "clear", id |-> id, errors |-> errors,
                        memory |-> cache, medium |-> saved]
    /\ UNCHANGED <<lastOp, configVars, ci, processing, transcode_groups, pc, ei, fs,
                   last, engineVars>>

SaveNext ==
    \/ SaveRecord
    \/ SaveClear

SaveSpec == SaveInit /\ [][SaveNext]_vars

\* C35: when the write of the snapshot fails during a mutating ledger
\* operation, the operation raises: whenever the last operation returned
\* normally, everything the ledger holds in memory is on the medium
C35_AFailedWriteIsRaised ==
    store.raised = "none" => saved = cache

\* a record operation raised the OSError of its write: memory holds a record
\* that the medium does not hold
C35_Witness ==
    /\ store.raised = "OSError"
    /\ \E t \in DOMAIN cache : t \notin DOMAIN saved
    /\ saved # EmptyCache

\* C40: clear called with an id that has no record reports an error and
\* leaves the ledger unchanged, in memory and in the snapshot, also when the
\* same call asks for all errors to be cleared
C40_ClearOfAMissingIdChangesNothing ==
    (/\ hist.kind = "clear"
     /\ hist.id # NoneT
     /\ hist.id[1] \notin DOMAIN hist.memory)
    => /\ store.raised = "KeyError"
       /\ cache = hist.memory
       /\ saved = hist.medium

\* clear(2, errors=True) on a ledger that holds an error record for item 1
\* and nothing for item 2 raised KeyError: the record of item 1 is gone from
\* memory and still in the snapshot
C40_Witness ==
    /\ hist.kind = "clear"
    /\ hist.id = Some(2)
    /\ hist.errors
    /\ DOMAIN hist.memory = {1}
    /\ hist.memory = hist.medium
    /\ store.raised = "KeyError"
    /\ cache = EmptyCache
    /\ saved = hist.medium

(***************************************************************************)
(* CrawlSpec: the preparation loop of a crawl run over its candidate       *)
(* stream, chain(cache.get_cached(cutoff), seeding list), with the ledger  *)
(* enumerated lazily while the loop writes to it (src/src/modes.py lines   *)
(* 231-264, src/src/cache.py lines 71-74).                                 *)
(***************************************************************************)
\* the records an earlier run can have left for an item: a completion, an
\* operational error kept for retry, and deferrals at either end of the clock
LeftRecords ==
    {CacheEntry(Some(1), None, FALSE, NoneT),
     CacheEntry(Some(1), "failed", TRUE, NoneT),
     CacheEntry(Some(1), "too_recent", TRUE, Some(1)),
     CacheEntry(Some(1), "too_recent", TRUE, Some(MaxTime))}

\* the snapshots the ledger is loaded from: any records for any of the items
\* of the catalog, inserted in the order of their ids
LeftSnapshots ==
    UNION {[ids -> LeftRecords] : ids \in SUBSET DOMAIN BatchCatalog}

\* a slip that would start the enumeration over after every candidate
get_cached_next_again(c, cutoff, position) ==
    {t \in DOMAIN c : _should_try(c[t], cutoff)}

\* the generator of get_cached, resumed: the entries the dict iterator has
\* not passed yet (it is at the entry of id `position`) and that are due now
get_cached_next(c, cutoff, position) ==
    {t \in DOMAIN c : t > position /\ _should_try(c[t], cutoff)}

Min(S) == CHOOSE x \in S : \A y \in S : x <= y

\* the calls of _build_transcode_group for a candidate, by what the tracker,
\* the file system and the operator can do during the call
BuildResults(cand) ==
    LET built(fetch, pe) ==
            _build_transcode_group(processing, cache, fs, catalog, cand[1], cand[2],
                                   Config, Env(fetch, pe))
    IN  {built(fetch, DefaultPrepEnv) : fetch \in FetchEnvs}
        \cup {built(fetch, pe) :
                fetch \in {f \in FetchEnvs :
                            built(f, DefaultPrepEnv).outcome \notin EarlyOutcomes},
                pe \in PrepEnvs}

CrawlInit ==
    /\ cache \in LeftSnapshots
    /\ saved = cache
    /\ catalog = BatchCatalog
    /\ lastOp = [t \in DOMAIN BatchCatalog |-> Touched("none", NoneT)]
    /\ release_urls = FALSE
    /\ created_cutoff \in {NoneT, Some(MaxTime)}
    /\ batch \in {NoneT, Some(1)}
    /\ ci = 0
    /\ processing = {}
    /\ transcode_groups = <<>>
    /\ pc = "cached"
    /\ ei = 0
    /\ fs = EmptyCache
    /\ hist = [kind |-> "enumeration", keys |-> DOMAIN cache,
               due |-> {c[2] : c \in get_cached(cache, created_cutoff)},
               yielded |-> <<>>, live |-> 0, raised |-> "none"]
    /\ IdleFilter /\ IdleEngine /\ IdleStore

\* the body of the loop, lines 240-264, for a candidate whose call of
\* _build_transcode_group ended as r; phase is the part of the stream the
\* candidate came from
Iterated(cand, r, phase) ==
    /\ cache' = r.cache
    /\ saved' = IF r.op = "none" THEN saved ELSE _save(r.cache)
    /\ lastOp' = IF r.op = "none" THEN lastOp ELSE Touch(lastOp, cand[2], r.op, r.created)
    /\ processing' = r.processing
    /\ last' = Seen(cand, r.outcome, r.op, r.raised, r.global_resample)
    /\ IF r.raised = "KeyboardInterrupt"
       THEN pc' = "aborted" /\ UNCHANGED transcode_groups
       ELSE IF r.raised # "none" \/ r.ret = NoneT
       THEN pc' = phase /\ UNCHANGED transcode_groups
       ELSE /\ transcode_groups' = Append(transcode_groups, r.ret[1])
            /\ pc' = IF batch # NoneT /\ Cardinality(r.processing) = batch[1]
                     THEN "review" ELSE phase

\* the for statement resumes the generator of get_cached, which yields its
\* next due record, and the body of the loop handles it. A dict whose size
\* changed since the iteration began makes the iterator raise RuntimeError,
\* outside the try of the loop.
YieldCached ==
    /\ pc = "cached"
    /\ IF Cardinality(DOMAIN cache) # Cardinality(hist.keys)
       THEN /\ pc' = "aborted"
            /\ hist' = [hist EXCEPT !.raised = "RuntimeError"]
            /\ UNCHANGED <<ledgerVars, ci, processing, transcode_groups, last>>
       ELSE /\ get_cached_next(cache, created_cutoff, ci) # {}
            /\ LET t == Min(get_cached_next(cache, created_cutoff, ci))
                   cand == <<cache[t].group_id, t>>
               IN  /\ ci' = t
                   /\ hist' = [hist EXCEPT !.yielded = Append(@, t)]
                   /\ IF ~should_try(cache, t, created_cutoff)
                      THEN /\ last' = Seen(cand, "ignored", "none", "none", "undiscovered")
                           /\ UNCHANGED <<ledgerVars, processing, transcode_groups, pc>>
                      ELSE \E r \in BuildResults(cand) : Iterated(cand, r, "cached")
    /\ UNCHANGED <<configVars, ei, fs, engineVars, store>>

\* the generator of get_cached returns: chain goes on to the seeding list
CachedExhausted ==
    /\ pc = "cached"
    /\ Cardinality(DOMAIN cache) = Cardinality(hist.keys)
    /\ get_cached_next(cache, created_cutoff, ci) = {}
    /\ pc' = "live"
    /\ UNCHANGED <<ledgerVars, configVars, ci, processing, transcode_groups, ei, fs,
                   hist, last, engineVars, store>>

\* the seeding list yields a candidate and the body of the loop handles it
YieldLive ==
    /\ pc = "live"
    /\ hist.live < MaxCandidates
    /\ hist' = [hist EXCEPT !.live = @ + 1]
    /\ \E cand \in Candidates :
        IF ~should_try(cache, cand[2], created_cutoff)
        THEN /\ last' = Seen(cand, "ignored", "none", "none", "undiscovered")
             /\ UNCHANGED <<ledgerVars, processing, transcode_groups, pc>>
        ELSE \E r \in BuildResults(cand) : Iterated(cand, r, "live")
    /\ UNCHANGED <<configVars, ci, ei, fs, engineVars, store>>

\* the seeding list is exhausted
LiveExhausted ==
    /\ pc = "live"
    /\ pc' = "review"
    /\ UNCHANGED <<ledgerVars, configVars, ci, processing, transcode_groups, ei, fs,
                   hist, last, engineVars, store>>

CrawlNext ==
    \/ YieldCached
    \/ CachedExhausted
    \/ YieldLive
    \/ LiveExhausted

CrawlSpec == CrawlInit /\ [][CrawlNext]_vars

\* C39: while the loop consumes the lazily enumerated due set of the ledger,
\* the writes of the loop only overwrite records of existing keys, so that
\* every record that was due when the enumeration started is yielded exactly
\* once, and the seeding list is consulted only once the enumeration has run
\* to its end
C39_TheDueSetIsEnumeratedOnce ==
    /\ hist.raised = "none"
    /\ (pc = "cached" \/ hist.live = 0) => DOMAIN cache = hist.keys
    /\ \A i, j \in 1 .. Len(hist.yielded) :
        /\ hist.yielded[i] \in hist.due
        /\ i # j => hist.yielded[i] # hist.yielded[j]
    /\ (pc = "live" \/ hist.live > 0) =>
            {hist.yielded[i] : i \in 1 .. Len(hist.yielded)} = hist.due

\* at least two records were due and each was yielded; the loop wrote over
\* the record of one of them, which is due no longer, and then went on to a
\* seeding item that the ledger did not know, whose record it added
C39_Witness ==
    /\ Cardinality(hist.due) >= 2
    /\ Len(hist.yielded) = Cardinality(hist.due)
    /\ hist.live = 1
    /\ \E t \in hist.due : lastOp[t].op # "none" /\ ~should_try(cache, t, created_cutoff)
    /\ DOMAIN cache # hist.keys

====
